---- MODULE Spec2Model ----
(***************************************************************************)
(* The operation-dispatch layer of the storage Operator                    *)
(* (core/src/types/operator/operator.rs): remove_via, remove_all, copy,    *)
(* rename, read_with, write_with, delete, create_dir and the builders of   *)
(* the *_with operations (operator_functions.rs), run against a backend    *)
(* (the accessor) whose calls may fail and whose state another writer may  *)
(* change.                                                                 *)
(*                                                                         *)
(* A path is a sequence of one-character strings.  A backend call is       *)
(* issued when it is appended to `log` and is in flight while its log      *)
(* index is in `inflight`.                                                 *)
(***************************************************************************)
EXTENDS Integers, Sequences, FiniteSets, TLC

VARIABLES
    limit,      \* Operator.limit of the operator the operations run on
    batchCap,   \* accessor.info().full_capability().batch
    batchMax,   \* accessor.info().full_capability().batch_max_operations
    operators,  \* the operators made so far over the accessor
    self,       \* the operator the operations run on: its place in `operators`
    tasks,      \* remove_all calls running side by side: position, result, lister
    store,      \* the backend: the set of paths that exist
    sizes,      \* the backend: content length of each file path
    pc,         \* position of the running operation
    call,       \* the operation invoked and its arguments
    result,     \* what the operation returned
    log,        \* the backend calls issued so far, in order
    inflight,   \* log indices of calls issued and not yet returned or dropped
    replies,    \* the backend's answers so far: call index, answer, calls issued by then
    pos,        \* remove_via: number of input paths taken from the stream
    chunk,      \* remove_all: entries collected by try_chunks for the next batch
    lister,     \* remove_all: the recursive lister (directory, entries yielded, ended)
    others,     \* number of writes made by another writer
    readst,     \* read_with: size hint, resolved range, bytes read
    wrst,       \* write_with: bytes left in the buffer, bytes the writer took
    fut,        \* the deferred operation built by a *_with call
    prev        \* the operation that ran before the current one, and the backend it left

vars == <<limit, batchCap, batchMax, operators, self, tasks, store, sizes, pc, call, result, log, inflight, replies,
          pos, chunk, lister, others, readst, wrst, fut, prev>>

opVars == <<limit, batchCap, batchMax, operators, self, tasks>>
hist == <<log, inflight, replies>>
removeVars == <<pos, chunk, lister>>

\* ------------------------------------------------------------------ bounds

MaxPaths == 3
MaxLimit == 2
MaxOtherWrites == 1
MaxSize == 3
MaxBytes == 3
MaxZeroWrites == 1

\* ------------------------------------------------------------------- paths

Dir == <<"d", "/">>
DirA == <<"d", "/", "a">>
DirB == <<"d", "/", "b">>
FileF == <<"f">>
FileG == <<"g">>

\* The paths the backend may hold.
Universe == {Dir, DirA, DirB, FileF, FileG}

EndsWithSlash(p) == Len(p) > 0 /\ p[Len(p)] = "/"

\* normalize_path collapses redundant separators.
RECURSIVE normalize_path(_)
normalize_path(p) ==
    IF Len(p) <= 1 THEN p
    ELSE IF p[1] = "/" /\ p[2] = "/" THEN normalize_path(Tail(p))
    ELSE <<p[1]>> \o normalize_path(Tail(p))

\* validate_path(path, mode): a directory path ends with `/`, a file path does not.
validate_path(p, mode) ==
    IF mode = "DIR" THEN EndsWithSlash(p) ELSE ~EndsWithSlash(p)

IsPrefix(d, p) == Len(d) < Len(p) /\ SubSeq(p, 1, Len(d)) = d

\* The entries a recursive listing of directory d has to produce.
Under(d, s) == {p \in s : IsPrefix(d, p)}

\* ---------------------------------------------------------- results, calls

NoPath == <<>>

\* An absent Option<u64>.
None == -1
NoResult == [kind |-> "None", op |-> "", path |-> NoPath]
Ok == [kind |-> "Ok", op |-> "", path |-> NoPath]
Panic == [kind |-> "Panic", op |-> "", path |-> NoPath]
Err(k, o, p) == [kind |-> k, op |-> o, path |-> p]

IsErr(r) == r.kind \notin {"None", "Ok", "Stream", "Wrote"}

Call1(o, p) == [op |-> o, path |-> p, to |-> NoPath, paths |-> <<>>]
Call2(o, p, q) == [op |-> o, path |-> p, to |-> q, paths |-> <<>>]
CallBatch(ps) == [op |-> "batch", path |-> NoPath, to |-> NoPath, paths |-> ps]

\* Issue backend call c: it is logged and in flight.
Issue(c) ==
    /\ log' = Append(log, c)
    /\ inflight' = inflight \cup {Len(log) + 1}
    /\ replies' = replies

Reply(i, a) == [idx |-> i, ans |-> a, at |-> Len(log)]

\* The awaited call (the last one issued) has returned a and nothing else is
\* issued.
Returned(a) ==
    /\ log' = log
    /\ inflight' = {}
    /\ replies' = Append(replies, Reply(Len(log), a))

\* The awaited call has returned a and the handler issues c.
ReturnedThenIssue(a, c) ==
    /\ log' = Append(log, c)
    /\ inflight' = {Len(log) + 1}
    /\ replies' = Append(replies, Reply(Len(log), a))

Finish(r) ==
    /\ pc' = "done"
    /\ result' = r

NoLister == [dir |-> NoPath, seen |-> {}, ended |-> FALSE]

Min(a, b) == IF a <= b THEN a ELSE b

\* ------------------------------------------------------------- mode checks

\* Faulty variant of ExpectedMode: writer_with takes any path.
ExpectedModeWriterAny(op) ==
    CASE op \in {"read_with", "reader_with", "write_with"} -> "FILE"
      [] op = "create_dir" -> "DIR"
      [] OTHER -> "ANY"

\* The mode validate_path is called with by each operation, if it is.
ExpectedMode(op) ==
    CASE op \in {"read_with", "reader_with", "write_with", "writer_with"} -> "FILE"
      [] op = "create_dir" -> "DIR"
      [] OTHER -> "ANY"

\* The name an operation gives with_operation in its mode error.
ErrOp(op) ==
    CASE op = "read_with" -> "read"
      [] op = "reader_with" -> "Operator::reader"
      [] op = "write_with" -> "Operator::write_with"
      [] op = "writer_with" -> "Operator::writer"
      [] OTHER -> op

\* The error of the mode check of op on path, Ok when it passes.
ModeError(op, path) ==
    IF ExpectedMode(op) = "FILE" /\ ~validate_path(path, "FILE")
    THEN Err("IsADirectory", ErrOp(op), path)
    ELSE IF ExpectedMode(op) = "DIR" /\ ~validate_path(path, "DIR")
    THEN Err("NotADirectory", ErrOp(op), path)
    ELSE Ok

\* ------------------------------------------------------------------ inputs

RawItems == {DirA, <<"d", "/", "/", "b">>}

RECURSIVE SeqsUpTo(_, _)
SeqsUpTo(S, n) ==
    IF n = 0 THEN {<<>>}
    ELSE LET shorter == SeqsUpTo(S, n - 1)
         IN shorter \cup {Append(s, x) : s \in {t \in shorter : Len(t) = n - 1}, x \in S}

Inputs == SeqsUpTo(RawItems, MaxPaths)

\* ------------------------------------------------------------------- batch

\* The backend's answer to a batch of deletes: `order` is the order of the
\* per-item results (a permutation of the request's indices) and `failed` the
\* indices whose delete failed.
Perms(n) == {f \in [1..n -> 1..n] : \A i, j \in 1..n : i # j => f[i] # f[j]}

\* Faulty variant of FirstFailing: the failing item with the smallest request
\* index, whatever the order of the results.
FirstFailingInRequestOrder(order, failed) ==
    IF failed # {} THEN CHOOSE i \in failed : \A j \in failed : i <= j ELSE 0

\* First failing item in result order, 0 when none fails.
FirstFailing(order, failed) ==
    IF \E k \in DOMAIN order : order[k] \in failed
    THEN order[CHOOSE k \in DOMAIN order :
                   /\ order[k] \in failed
                   /\ \A j \in 1..(k - 1) : order[j] \notin failed]
    ELSE 0

\* The paths a batch deleted: those of the items that did not fail.
BatchDeleted(ps, failed) == {ps[i] : i \in (DOMAIN ps) \ failed}

\* What the backend answers to a batch of deletes of the paths ps: the whole
\* request fails, or one result per item comes back.
BatchAnswers(ps) ==
    {Err("Unexpected", "batch", NoPath)}
        \cup {[kind |-> "Results", order |-> o, failed |-> f] :
                 o \in Perms(Len(ps)), f \in SUBSET (DOMAIN ps)}

\* Faulty variant of BatchOutcome: the per-item results are not looked at.
BatchOutcomeIgnoresItems(ps, a) == IF a.kind # "Results" THEN a ELSE Ok

\* .await?.into_results() and the loop `for (_, result) in results { result?; }`:
\* the error the batch ends the operation with, Ok when it goes on.
BatchOutcome(ps, a) ==
    IF a.kind # "Results" THEN a
    ELSE IF FirstFailing(a.order, a.failed) = 0 THEN Ok
    ELSE Err("Unexpected", "batch_item", ps[FirstFailing(a.order, a.failed)])

\* The backend state after it answered a to a batch of deletes of ps.
StoreAfterBatch(ps, a) ==
    IF a.kind = "Results" THEN store \ BatchDeleted(ps, a.failed) ELSE store

\* ------------------------------------------------------------ other writer

\* Another writer creates or removes a path while an operation runs.
OtherWrite ==
    /\ pc \notin {"idle", "done"}
    /\ others < MaxOtherWrites
    /\ \E p \in {DirA, FileF} :
          store' = IF p \in store THEN store \ {p} ELSE store \cup {p}
    /\ others' = others + 1
    /\ UNCHANGED <<opVars, sizes, pc, call, result, hist, removeVars, readst, wrst,
                   fut, prev>>

\* -------------------------------------------------------------- remove_via

\* Faulty variant of InputPath: the caller's string is passed on as it is.
InputPathRaw(k) == call.input[k]

\* Faulty variant of InputPath: the stream is taken from its end.
InputPathFromEnd(k) == normalize_path(call.input[Len(call.input) + 1 - k])

\* input.map(|v| normalize_path(&v)): the k-th path of the stream.
InputPath(k) == normalize_path(call.input[k])

\* Faulty variant of ChunkSize: the stream is not chunked by the limit.
ChunkSizeUnlimited(lim, remaining) == remaining

\* .chunks(self.limit()): the size of the next chunk when `remaining` paths
\* are left in the stream.
ChunkSize(lim, remaining) == Min(lim, remaining)

\* try_for_each_concurrent(self.limit, ..): whether one more delete may be
\* started while n are in flight.  The limit is an Into<Option<usize>> and a
\* limit of zero is taken as no limit at all.
MayDispatch(lim, n) == lim = 0 \/ n < lim

\* remove_via(input): the batch path builds the chunked stream (chunks(0)
\* panics), the other path starts the concurrent loop.
CallRemoveVia(input) ==
    /\ pc = "idle"
    /\ call' = [name |-> "remove_via", input |-> input, path |-> NoPath, to |-> NoPath]
    /\ pos' = 0
    /\ IF batchCap
       THEN IF limit = 0 THEN Finish(Panic)
            ELSE pc' = "rv_chunk" /\ result' = result
       ELSE pc' = "rv_conc" /\ result' = result
    /\ UNCHANGED <<opVars, store, sizes, hist, chunk, lister, others, wrst, fut, prev, readst>>

\* Batch path, input.next(): the next chunk is submitted as one batch request,
\* or the stream has ended and remove_via returns Ok.
RV_NextChunk ==
    /\ pc = "rv_chunk"
    /\ IF pos = Len(call.input)
       THEN /\ Finish(Ok)
            /\ UNCHANGED <<hist, pos>>
       ELSE LET k == ChunkSize(limit, Len(call.input) - pos)
            IN /\ Issue(CallBatch([j \in 1..k |-> InputPath(pos + j)]))
               /\ pos' = pos + k
               /\ pc' = "rv_batch"
               /\ result' = result
    /\ UNCHANGED <<opVars, store, sizes, call, chunk, lister, others, wrst, fut, prev, readst>>

\* The batch request returns: the whole call failed, or per-item results come
\* back and the first failing one is returned.
RV_BatchReturns ==
    /\ pc = "rv_batch"
    /\ LET ps == log[Len(log)].paths
       IN \E a \in BatchAnswers(ps) :
             /\ store' = StoreAfterBatch(ps, a)
             /\ Returned(a)
             /\ IF BatchOutcome(ps, a) = Ok
                THEN pc' = "rv_chunk" /\ result' = result
                ELSE Finish(BatchOutcome(ps, a))
    /\ UNCHANGED <<opVars, sizes, call, removeVars, others, wrst, fut, prev, readst>>

\* Concurrent path: the stream yields the next path and its delete is started.
RV_Dispatch ==
    /\ pc = "rv_conc"
    /\ pos < Len(call.input)
    /\ MayDispatch(limit, Cardinality(inflight))
    /\ Issue(Call1("delete", InputPath(pos + 1)))
    /\ pos' = pos + 1
    /\ UNCHANGED <<opVars, store, sizes, pc, call, result, chunk, lister, others, wrst, fut, prev, readst>>

\* Concurrent path: one delete in flight returns Ok.
RV_DeleteOk ==
    /\ pc = "rv_conc"
    /\ \E i \in inflight :
          /\ store' = store \ {log[i].path}
          /\ inflight' = inflight \ {i}
          /\ replies' = Append(replies, Reply(i, Ok))
    /\ UNCHANGED <<opVars, sizes, pc, call, result, log, removeVars, others, wrst, fut, prev, readst>>

\* Faulty variant of RV_DeleteErr: the failure of a delete is noted and the
\* loop goes on with the other paths.
RV_DeleteErrGoesOn ==
    /\ pc = "rv_conc"
    /\ \E i \in inflight :
          /\ inflight' = inflight \ {i}
          /\ replies' = Append(replies, Reply(i, Err("Unexpected", "delete", log[i].path)))
    /\ UNCHANGED <<opVars, store, sizes, pc, call, result, log, removeVars, others, wrst, fut, prev, readst>>

\* Concurrent path: one delete in flight fails; `.await?` returns the error at
\* once and the deletes still in flight are dropped (the backend may or may
\* not have applied each of them).
RV_DeleteErr ==
    /\ pc = "rv_conc"
    /\ \E i \in inflight :
          /\ Finish(Err("Unexpected", "delete", log[i].path))
          /\ replies' = Append(replies, Reply(i, Err("Unexpected", "delete", log[i].path)))
          /\ \E applied \in SUBSET (inflight \ {i}) :
                store' = store \ {log[j].path : j \in applied}
    /\ inflight' = {}
    /\ UNCHANGED <<opVars, sizes, call, log, removeVars, others, wrst, fut, prev, readst>>

\* Concurrent path: the stream has ended and no delete is in flight.
RV_Finish ==
    /\ pc = "rv_conc"
    /\ pos = Len(call.input)
    /\ inflight = {}
    /\ Finish(Ok)
    /\ UNCHANGED <<opVars, store, sizes, call, hist, removeVars, others, wrst, fut, prev, readst>>

\* -------------------------------------------------------------- remove_all

RawDirs == {Dir, <<"d", "/", "/">>, FileF, DirA}

\* What the backend's stat of path p answers: its metadata (with the entry
\* mode), NotFound for an absent path, or another error.
StatAnswers(p) ==
    {Err("Unexpected", "stat", p)}
        \cup (IF p \in store
              THEN {[kind |-> "Ok", op |-> IF EndsWithSlash(p) THEN "DIR" ELSE "FILE",
                     path |-> p, len |-> sizes[p]]}
              ELSE {Err("NotFound", "stat", p)})

\* What the backend's delete of path p answers; deleting an absent path is Ok.
DeleteAnswers(p) == {Ok, Err("Unexpected", "delete", p)}

\* The backend state after it answered a to a delete of p.
StoreAfterDelete(p, a) == IF a = Ok THEN store \ {p} ELSE store

\* What lister.next() answers: an entry not yet produced, the end of the
\* listing once every entry was produced, or an error.  The chunked stream is
\* fused: a listing that has ended is not asked again and stays ended.
ListerAnswers ==
    IF lister.ended THEN {[kind |-> "End", op |-> "", path |-> NoPath]}
    ELSE {Err("Unexpected", "list", lister.dir)}
            \cup (IF Under(lister.dir, store) \subseteq lister.seen
                  THEN {[kind |-> "End", op |-> "", path |-> NoPath]}
                  ELSE {[kind |-> "Entry", op |-> "", path |-> v] :
                            v \in Under(lister.dir, store) \ lister.seen})

\* The path remove_all works on, as self.stat, self.delete and
\* self.lister_with each normalize it.
RootPath == normalize_path(call.path)

\* Faulty variant of StatBranch: NotFound is passed on like any other error.
StatBranchNotFoundFails(a) ==
    IF a.kind # "Ok" THEN "return_err"
    ELSE IF a.op # "DIR" THEN "delete"
    ELSE "list"

\* Faulty variant of StatBranch: the mode is not tested and every existing
\* path is listed.
StatBranchNoModeTest(a) ==
    IF a.kind = "NotFound" THEN "return_ok"
    ELSE IF a.kind # "Ok" THEN "return_err"
    ELSE "list"

\* The match on the stat and the mode test: NotFound returns Ok, another
\* error is passed on, a path that is not a directory is deleted, a directory
\* is listed recursively.
StatBranch(a) ==
    IF a.kind = "NotFound" THEN "return_ok"
    ELSE IF a.kind # "Ok" THEN "return_err"
    ELSE IF a.op # "DIR" THEN "delete"
    ELSE "list"

\* Faulty variant of GoesOnAfter: the error of a child delete is dropped.
GoesOnAfterAnyAnswer(a) == TRUE

\* let _ = self.delete(..).await?: whether the item phase goes on after a
\* delete answered a.
GoesOnAfter(a) == a = Ok

\* remove_all(path): self.stat(path) is issued.
CallRemoveAll(path) ==
    /\ pc = "idle"
    /\ call' = [name |-> "remove_all", input |-> <<>>, path |-> path, to |-> NoPath]
    /\ Issue(Call1("stat", normalize_path(path)))
    /\ pc' = "ra_stat"
    /\ UNCHANGED <<opVars, store, sizes, result, removeVars, others, wrst, fut, prev, readst>>

\* The stat returns and remove_all branches on it.
RA_StatReturns ==
    /\ pc = "ra_stat"
    /\ \E a \in StatAnswers(RootPath) :
          CASE StatBranch(a) = "return_ok" -> Finish(Ok) /\ Returned(a)
            [] StatBranch(a) = "return_err" -> Finish(a) /\ Returned(a)
            [] StatBranch(a) = "delete" ->
                  /\ ReturnedThenIssue(a, Call1("delete", RootPath))
                  /\ pc' = "ra_file"
                  /\ result' = result
            [] StatBranch(a) = "list" ->
                  /\ ReturnedThenIssue(a, Call1("list", RootPath))
                  /\ pc' = "ra_list"
                  /\ result' = result
    /\ UNCHANGED <<opVars, store, sizes, call, removeVars, others, wrst, fut, prev, readst>>

\* return self.delete(path).await
RA_FileDeleteReturns ==
    /\ pc = "ra_file"
    /\ \E a \in DeleteAnswers(RootPath) :
          /\ Finish(a)
          /\ store' = StoreAfterDelete(RootPath, a)
          /\ Returned(a)
    /\ UNCHANGED <<opVars, sizes, call, removeVars, others, wrst, fut, prev, readst>>

\* lister_with(path).recursive(true).await?, then the capability branch:
\* try_chunks(self.limit()) panics on a limit of zero.
RA_ListerCreated ==
    /\ pc = "ra_list"
    /\ \/ /\ Finish(Err("Unexpected", "list", RootPath))
          /\ Returned(Err("Unexpected", "list", RootPath))
          /\ UNCHANGED <<lister>>
       \/ /\ lister' = [dir |-> RootPath, seen |-> {}, ended |-> FALSE]
          /\ Returned(Ok)
          /\ IF batchCap
             THEN IF limit = 0 THEN Finish(Panic)
                  ELSE pc' = "ra_chunk" /\ result' = result
             ELSE pc' = "ra_next" /\ result' = result
    /\ UNCHANGED <<opVars, store, sizes, call, pos, chunk, others, wrst, fut, prev, readst>>

\* Without batch, try_for_each: the next entry is deleted before the lister
\* is asked again; at the end of the listing the directory itself is deleted.
RA_Next ==
    /\ pc = "ra_next"
    /\ \E a \in ListerAnswers :
          CASE a.kind = "Entry" ->
                  /\ Issue(Call1("delete", normalize_path(a.path)))
                  /\ lister' = [lister EXCEPT !.seen = @ \cup {a.path}]
                  /\ pc' = "ra_del"
                  /\ result' = result
            [] a.kind = "End" ->
                  /\ Issue(Call1("delete", RootPath))
                  /\ lister' = [lister EXCEPT !.ended = TRUE]
                  /\ pc' = "ra_root"
                  /\ result' = result
            [] OTHER ->
                  /\ Finish(a)
                  /\ UNCHANGED <<hist, lister>>
    /\ UNCHANGED <<opVars, store, sizes, call, pos, chunk, others, wrst, fut, prev, readst>>

\* Without batch: the delete of one entry returns.
RA_DeleteReturns ==
    /\ pc = "ra_del"
    /\ LET p == log[Len(log)].path
       IN \E a \in DeleteAnswers(p) :
             /\ store' = StoreAfterDelete(p, a)
             /\ Returned(a)
             /\ IF GoesOnAfter(a)
                THEN pc' = "ra_next" /\ result' = result
                ELSE Finish(a)
    /\ UNCHANGED <<opVars, sizes, call, removeVars, others, wrst, fut, prev, readst>>

\* Faulty variant of TryChunkFull: every entry is handed out on its own.
TryChunkFullAtOnce(lim, n) == TRUE

\* try_chunks(self.limit()): whether a chunk of n entries is handed out.
TryChunkFull(lim, n) == n >= lim

\* Faulty variant of RA_ChunkNext: when the listing fails, the entries
\* collected so far are submitted before the error is returned.
RA_ChunkNextFlushesOnError ==
    /\ pc = "ra_chunk"
    /\ \E a \in ListerAnswers :
          CASE a.kind = "Entry" ->
                  /\ lister' = [lister EXCEPT !.seen = @ \cup {a.path}]
                  /\ result' = result
                  /\ IF TryChunkFull(limit, Len(chunk) + 1)
                     THEN /\ Issue(CallBatch(Append(chunk, a.path)))
                          /\ chunk' = <<>>
                          /\ pc' = "ra_batch"
                     ELSE /\ chunk' = Append(chunk, a.path)
                          /\ pc' = pc
                          /\ UNCHANGED hist
            [] a.kind = "End" ->
                  /\ lister' = [lister EXCEPT !.ended = TRUE]
                  /\ chunk' = <<>>
                  /\ result' = result
                  /\ IF chunk # <<>>
                     THEN /\ Issue(CallBatch(chunk))
                          /\ pc' = "ra_batch"
                     ELSE /\ Issue(Call1("delete", RootPath))
                          /\ pc' = "ra_root"
            [] OTHER ->
                  /\ Finish(a)
                  /\ chunk' = <<>>
                  /\ log' = IF chunk # <<>> THEN Append(log, CallBatch(chunk)) ELSE log
                  /\ UNCHANGED <<inflight, replies, lister>>
    /\ UNCHANGED <<opVars, store, sizes, call, pos, others, wrst, fut, prev, readst>>

\* With batch, obs.next() on the chunked lister: entries are collected until
\* the chunk is full or the listing ends; a listing error is returned and the
\* entries collected so far are dropped.
RA_ChunkNext ==
    /\ pc = "ra_chunk"
    /\ \E a \in ListerAnswers :
          CASE a.kind = "Entry" ->
                  /\ lister' = [lister EXCEPT !.seen = @ \cup {a.path}]
                  /\ result' = result
                  /\ IF TryChunkFull(limit, Len(chunk) + 1)
                     THEN /\ Issue(CallBatch(Append(chunk, a.path)))
                          /\ chunk' = <<>>
                          /\ pc' = "ra_batch"
                     ELSE /\ chunk' = Append(chunk, a.path)
                          /\ pc' = pc
                          /\ UNCHANGED hist
            [] a.kind = "End" ->
                  /\ lister' = [lister EXCEPT !.ended = TRUE]
                  /\ chunk' = <<>>
                  /\ result' = result
                  /\ IF chunk # <<>>
                     THEN /\ Issue(CallBatch(chunk))
                          /\ pc' = "ra_batch"
                     ELSE /\ Issue(Call1("delete", RootPath))
                          /\ pc' = "ra_root"
            [] OTHER ->
                  /\ Finish(a)
                  /\ chunk' = <<>>
                  /\ UNCHANGED <<hist, lister>>
    /\ UNCHANGED <<opVars, store, sizes, call, pos, others, wrst, fut, prev, readst>>

\* With batch: the batch request returns, as in remove_via.
RA_BatchReturns ==
    /\ pc = "ra_batch"
    /\ LET ps == log[Len(log)].paths
       IN \E a \in BatchAnswers(ps) :
             /\ store' = StoreAfterBatch(ps, a)
             /\ Returned(a)
             /\ IF BatchOutcome(ps, a) = Ok
                THEN pc' = "ra_chunk" /\ result' = result
                ELSE Finish(BatchOutcome(ps, a))
    /\ UNCHANGED <<opVars, sizes, call, removeVars, others, wrst, fut, prev, readst>>

\* self.delete(path).await?; Ok(())
RA_RootDeleteReturns ==
    /\ pc = "ra_root"
    /\ \E a \in DeleteAnswers(RootPath) :
          /\ Finish(a)
          /\ store' = StoreAfterDelete(RootPath, a)
          /\ Returned(a)
    /\ UNCHANGED <<opVars, sizes, call, removeVars, others, wrst, fut, prev, readst>>

\* ------------------------------------------------- specification: removals

NoRead == [hint |-> None, off |-> None, size |-> None, len |-> None]
NoWrite == [rest |-> <<>>, taken |-> <<>>]
NoString == ""
NoFuture ==
    [state |-> "none", inner |-> "", op |-> "", path |-> NoPath, args |-> <<>>,
     calls |-> 0, chain |-> <<>>]
NoPrev ==
    [name |-> "", path |-> NoPath, to |-> NoPath, result |-> NoResult, store |-> {},
     sizes |-> <<>>, others |-> 0]

\* An operator: Operator { accessor, limit }, with how it was made (from_inner,
\* with_limit or blocking) and the operator it was made from, 0 when none.
MadeOperator(l, by, from) ==
    [limit |-> l, accessor |-> "accessor", blocking |-> (by = "blocking"),
     by |-> by, from |-> from]

\* No operation has run.
InitRun ==
    /\ tasks = <<>>
    /\ pc = "idle"
    /\ call = [name |-> "", input |-> <<>>, path |-> NoPath, to |-> NoPath]
    /\ result = NoResult
    /\ log = <<>>
    /\ inflight = {}
    /\ replies = <<>>
    /\ pos = 0
    /\ chunk = <<>>
    /\ lister = NoLister
    /\ others = 0
    /\ readst = NoRead
    /\ wrst = NoWrite
    /\ fut = NoFuture
    /\ prev = [NoPrev EXCEPT !.store = store, !.sizes = sizes]

\* The operations run on one operator, whose limit with_limit has set.
InitCommon ==
    /\ batchMax = None
    /\ operators = <<MadeOperator(limit, "with_limit", 0)>>
    /\ self = 1
    /\ InitRun

\* An operator made by with_limit over a backend holding any set of paths.
InitRemove ==
    /\ limit \in 0..MaxLimit
    /\ batchCap \in BOOLEAN
    /\ store \in {s \cup {FileF} : s \in SUBSET {Dir, DirA, DirB}}
    /\ sizes = [p \in Universe |-> 0]
    /\ InitCommon

NextRemove ==
    \/ \E input \in Inputs : CallRemoveVia(input)
    \/ RV_NextChunk
    \/ RV_BatchReturns
    \/ RV_Dispatch
    \/ RV_DeleteOk
    \/ RV_DeleteErr
    \/ RV_Finish
    \/ \E path \in RawDirs : CallRemoveAll(path)
    \/ RA_StatReturns
    \/ RA_FileDeleteReturns
    \/ RA_ListerCreated
    \/ RA_Next
    \/ RA_DeleteReturns
    \/ RA_ChunkNext
    \/ RA_BatchReturns
    \/ RA_RootDeleteReturns
    \/ OtherWrite

SpecRemove == InitRemove /\ [][NextRemove]_vars

\* ------------------------------------------------------------ copy, rename

RawFiles == {FileF, FileG, <<"d", "/", "/", "a">>, Dir, <<"f", "/", "/">>}

\* Faulty variant of CopyCheck: equal paths are not rejected.
CopyCheckNoSameFile(from, to) ==
    IF ~validate_path(normalize_path(from), "FILE")
    THEN Err("IsADirectory", "Operator::copy", normalize_path(from))
    ELSE IF ~validate_path(normalize_path(to), "FILE")
    THEN Err("IsADirectory", "Operator::copy", normalize_path(to))
    ELSE Ok

\* Faulty variant of CopyCheck: a destination the backend holds is refused.
CopyCheckNoOverwrite(from, to) ==
    IF ~validate_path(normalize_path(from), "FILE")
    THEN Err("IsADirectory", "Operator::copy", normalize_path(from))
    ELSE IF ~validate_path(normalize_path(to), "FILE")
    THEN Err("IsADirectory", "Operator::copy", normalize_path(to))
    ELSE IF normalize_path(from) = normalize_path(to)
    THEN Err("IsSameFile", "Operator::copy", normalize_path(from))
    ELSE IF normalize_path(to) \in store
    THEN Err("AlreadyExists", "Operator::copy", normalize_path(to))
    ELSE Ok

\* Faulty variant of CopyCheck: the mode of `to` is not validated.
CopyCheckNoToMode(from, to) ==
    IF ~validate_path(normalize_path(from), "FILE")
    THEN Err("IsADirectory", "Operator::copy", normalize_path(from))
    ELSE IF normalize_path(from) = normalize_path(to)
    THEN Err("IsSameFile", "Operator::copy", normalize_path(from))
    ELSE Ok

\* The checks copy makes before it contacts the backend: `from` is a file,
\* `to` is a file, the two differ.
CopyCheck(from, to) ==
    IF ~validate_path(normalize_path(from), "FILE")
    THEN Err("IsADirectory", "Operator::copy", normalize_path(from))
    ELSE IF ~validate_path(normalize_path(to), "FILE")
    THEN Err("IsADirectory", "Operator::copy", normalize_path(to))
    ELSE IF normalize_path(from) = normalize_path(to)
    THEN Err("IsSameFile", "Operator::copy", normalize_path(from))
    ELSE Ok

\* The same checks in rename, which reports them under the name move_.
RenameCheck(from, to) ==
    IF ~validate_path(normalize_path(from), "FILE")
    THEN Err("IsADirectory", "Operator::move_", normalize_path(from))
    ELSE IF ~validate_path(normalize_path(to), "FILE")
    THEN Err("IsADirectory", "Operator::move_", normalize_path(to))
    ELSE IF normalize_path(from) = normalize_path(to)
    THEN Err("IsSameFile", "Operator::move_", normalize_path(from))
    ELSE Ok

\* What the backend answers to a copy or a rename of p: the source must exist.
TransferAnswers(o, p) ==
    {Err("Unexpected", o, p)}
        \cup (IF p \in store THEN {Ok} ELSE {Err("NotFound", o, p)})

\* copy(from, to): a failed check is returned, else the backend copy is issued.
CallCopy(from, to) ==
    /\ pc = "idle"
    /\ call' = [name |-> "copy", input |-> <<>>, path |-> from, to |-> to]
    /\ IF CopyCheck(from, to) # Ok
       THEN /\ Finish(CopyCheck(from, to))
            /\ UNCHANGED hist
       ELSE /\ Issue(Call2("copy", normalize_path(from), normalize_path(to)))
            /\ pc' = "cp_wait"
            /\ result' = result
    /\ UNCHANGED <<opVars, store, sizes, removeVars, others, wrst, fut, prev, readst>>

\* self.inner().copy(&from, &to, OpCopy::new()).await?; Ok(())
CopyReturns ==
    /\ pc = "cp_wait"
    /\ LET c == log[Len(log)]
       IN \E a \in TransferAnswers("copy", c.path) :
             /\ Finish(a)
             /\ Returned(a)
             /\ IF a = Ok
                THEN /\ store' = store \cup {c.to}
                     /\ sizes' = [sizes EXCEPT ![c.to] = sizes[c.path]]
                ELSE UNCHANGED <<store, sizes>>
    /\ UNCHANGED <<opVars, call, removeVars, others, wrst, fut, prev, readst>>

\* rename(from, to): a failed check is returned, else the backend rename is
\* issued.
CallRename(from, to) ==
    /\ pc = "idle"
    /\ call' = [name |-> "rename", input |-> <<>>, path |-> from, to |-> to]
    /\ IF RenameCheck(from, to) # Ok
       THEN /\ Finish(RenameCheck(from, to))
            /\ UNCHANGED hist
       ELSE /\ Issue(Call2("rename", normalize_path(from), normalize_path(to)))
            /\ pc' = "mv_wait"
            /\ result' = result
    /\ UNCHANGED <<opVars, store, sizes, removeVars, others, wrst, fut, prev, readst>>

\* self.inner().rename(&from, &to, OpRename::new()).await?; Ok(())
RenameReturns ==
    /\ pc = "mv_wait"
    /\ LET c == log[Len(log)]
       IN \E a \in TransferAnswers("rename", c.path) :
             /\ Finish(a)
             /\ Returned(a)
             /\ IF a = Ok
                THEN /\ store' = (store \ {c.path}) \cup {c.to}
                     /\ sizes' = [sizes EXCEPT ![c.to] = sizes[c.path]]
                ELSE UNCHANGED <<store, sizes>>
    /\ UNCHANGED <<opVars, call, removeVars, others, wrst, fut, prev, readst>>

\* A backend holding any of the two files, of different lengths.
InitCopy ==
    /\ limit = MaxLimit
    /\ batchCap \in BOOLEAN
    /\ store \in SUBSET {FileF, FileG, DirA}
    /\ sizes = [p \in Universe |-> IF p = FileF THEN 1 ELSE IF p = FileG THEN 2 ELSE 0]
    /\ InitCommon

NextCopy ==
    \/ \E from \in RawFiles, to \in RawFiles : CallCopy(from, to)
    \/ CopyReturns
    \/ \E from \in RawFiles, to \in RawFiles : CallRename(from, to)
    \/ RenameReturns
    \/ OtherWrite

SpecCopy == InitCopy /\ [][NextCopy]_vars

\* C8: copy(x, x) and rename(x, x) of a file path x fail with IsSameFile and
\* no backend call is made.
C8_SamePathRejected ==
    (call.name \in {"copy", "rename"} /\ call.path = call.to /\ ~EndsWithSlash(call.path))
        => /\ pc = "done"
           /\ result.kind = "IsSameFile"
           /\ log = <<>>

C8_Witness ==
    /\ call.name = "copy"
    /\ call.path = <<"d", "/", "/", "a">>
    /\ call.to = call.path
    /\ normalize_path(call.path) \in store
    /\ result.kind = "IsSameFile"

\* C9: copy and rename fail with IsADirectory whenever `from` or `to` ends
\* with `/`, and no backend call is made.
C9_DirectoryRejected ==
    (call.name \in {"copy", "rename"} /\ (EndsWithSlash(call.path) \/ EndsWithSlash(call.to)))
        => /\ pc = "done"
           /\ result.kind = "IsADirectory"
           /\ log = <<>>

C9_Witness ==
    /\ call.name = "copy"
    /\ call.path = FileF
    /\ call.to = <<"f", "/", "/">>
    /\ FileF \in store
    /\ result = Err("IsADirectory", "Operator::copy", <<"f", "/">>)

\* --------------------------------------------------------------- read_with

\* The range of OpRead::default() (`..`), `1..` and `0..2`.
FullRange == [off |-> None, size |-> None]
Ranges == {FullRange, [off |-> 1, size |-> None], [off |-> 0, size |-> 2]}

ETags == {"A", "B"}

\* The etag the backend holds for path p.
ETagOf(p) == "A"

\* OpStat::default(), OpRead::default(), ...: no condition, the full range.
DefaultArgs ==
    [if_match |-> NoString, version |-> NoString, range |-> FullRange,
     content_type |-> NoString, start_after |-> NoString, bs |-> <<>>]

\* Faulty variant of StatArgsOfRead: the stat carries the conditions of the
\* read.
StatArgsOfReadKeepsConditions(args) == args

\* OpStat::default(): the stat of read_with takes nothing from the arguments
\* of the read.
StatArgsOfRead(args) == DefaultArgs

\* Whether the condition of args fails on path p: if_match names another
\* etag than the one the backend holds.
ConditionFails(p, args) ==
    p \in store /\ args.if_match \notin {NoString, ETagOf(p)}

RawReadPaths == {FileF, FileG, <<"f", "/", "/">>}

\* BytesRange::complete(total): the range with its absent bounds filled in
\* from the content length.  total - off is computed in u64; a negative size
\* here stands for the wrapped value, 2^64 larger.
Complete(r, total) ==
    IF r.off # None /\ r.size # None THEN r
    ELSE IF r.off # None THEN [off |-> r.off, size |-> total - r.off]
    ELSE IF r.size # None THEN [off |-> total - r.size, size |-> r.size]
    ELSE [off |-> 0, size |-> total]

\* Faulty variant of ResolveRange: the content length is taken for the
\* position of the last byte.
ResolveRangeInclusiveEnd(r, total) ==
    IF r.size # None THEN r ELSE Complete(r, total + 1)

\* range.size() known: the range as given; else range.complete(size) with
\* the content length of the stat.
ResolveRange(r, total) ==
    IF r.size # None THEN r ELSE Complete(r, total)

\* Faulty variant of RangeSizeKnown: every range is taken for one of known
\* size.
RangeSizeKnownAlways(r) == TRUE

\* `if let Some(size) = range.size()`: the range given needs no stat.
RangeSizeKnown(r) == r.size # None

\* What the backend's read of path p answers: an error, or a stream of some
\* number of bytes.  The stream holds the bytes of the requested range that
\* the file has when the read is served, which another writer may have
\* changed since the stat; a backend may also ignore the range.
ReadAnswers(p) ==
    {Err("Unexpected", "read", p)}
        \cup (IF p \in store
              THEN {[kind |-> "Stream", len |-> n] : n \in 0..(MaxSize + 1)}
              ELSE {Err("NotFound", "read", p)})

\* What the backend answers to a stat of p with arguments args.
StatAnswersWith(p, args) ==
    IF ConditionFails(p, args)
    THEN {Err("Unexpected", "stat", p), Err("ConditionNotMatch", "stat", p)}
    ELSE StatAnswers(p)

\* What the backend answers to a read of p with arguments args.
ReadAnswersWith(p, args) ==
    IF ConditionFails(p, args)
    THEN {Err("Unexpected", "read", p), Err("ConditionNotMatch", "read", p)}
    ELSE ReadAnswers(p)

\* The backend's read with arguments args.
ReadCall(path, args) ==
    [op |-> "read", path |-> path, to |-> NoPath, paths |-> <<>>,
     range |-> args.range, args |-> args]

\* The future of read_with(path) with the arguments args, whose range is r,
\* is run: a directory
\* path is rejected; a range of known size is read as it is; else the path is
\* stat'ed first.
StartRead(path, args) ==
    /\ pc = "idle"
    /\ call' = [name |-> "read_with", input |-> <<>>, path |-> path,
                to |-> NoPath, range |-> args.range, args |-> args]
    /\ IF ModeError("read_with", path) # Ok
       THEN /\ Finish(ModeError("read_with", path))
            /\ UNCHANGED <<hist, readst>>
       ELSE IF RangeSizeKnown(args.range)
       THEN /\ Issue(ReadCall(path, args))
            /\ readst' = [hint |-> args.range.size, off |-> args.range.off,
                          size |-> args.range.size, len |-> None]
            /\ pc' = "rd_read"
            /\ result' = result
       ELSE /\ Issue([op |-> "stat", path |-> path, to |-> NoPath, paths |-> <<>>,
                      args |-> StatArgsOfRead(args)])
            /\ readst' = readst
            /\ pc' = "rd_stat"
            /\ result' = result
    /\ UNCHANGED <<opVars, store, sizes, removeVars, others, wrst, prev>>

\* read_with(path).range(r), awaited.
CallRead(path, r) ==
    /\ StartRead(normalize_path(path), [DefaultArgs EXCEPT !.range = r])
    /\ UNCHANGED fut

\* inner.stat(&path, OpStat::default()).await?.into_metadata().content_length(),
\* then the read of the completed range is issued.  With overflow checks a
\* content length below the offset panics in complete().
RD_StatReturns ==
    /\ pc = "rd_stat"
    /\ \E a \in StatAnswersWith(call.path, log[Len(log)].args) :
          IF a.kind # "Ok"
          THEN /\ Finish(a)
               /\ Returned(a)
               /\ readst' = readst
          ELSE LET r == ResolveRange(call.range, a.len)
                   ans == a
               IN \/ /\ r.size < 0
                     /\ Finish(Panic)
                     /\ Returned(ans)
                     /\ readst' = readst
                  \/ /\ ReturnedThenIssue(ans, ReadCall(call.path,
                                                         [call.args EXCEPT !.range = r]))
                     /\ readst' = [hint |-> r.size, off |-> r.off, size |-> r.size,
                                   len |-> None]
                     /\ pc' = "rd_read"
                     /\ result' = result
    /\ UNCHANGED <<opVars, store, sizes, call, removeVars, others, wrst, fut, prev>>

\* inner.read(..).await?, then s.read_to_end(&mut buf): the buffer holds every
\* byte of the stream.
RD_ReadReturns ==
    /\ pc = "rd_read"
    /\ \E a \in ReadAnswersWith(call.path, call.args) :
          /\ Returned(a)
          /\ IF a.kind = "Stream"
             THEN /\ Finish(Ok)
                  /\ readst' = [readst EXCEPT !.len = a.len]
             ELSE /\ Finish(a)
                  /\ readst' = readst
    /\ UNCHANGED <<opVars, store, sizes, call, removeVars, others, wrst, fut, prev>>

\* A backend that may hold the file f, of any length.
InitRead ==
    /\ limit = MaxLimit
    /\ batchCap \in BOOLEAN
    /\ store \in SUBSET {FileF}
    /\ sizes \in {[p \in Universe |-> IF p = FileF THEN n ELSE 0] : n \in 0..MaxSize}
    /\ InitCommon

NextRead ==
    \/ \E path \in RawReadPaths, r \in Ranges : CallRead(path, r)
    \/ RD_StatReturns
    \/ RD_ReadReturns
    \/ OtherWrite

SpecRead == InitRead /\ [][NextRead]_vars

\* The stat that resolved the range of the running read answered Ok.
StatSucceeded ==
    /\ call.name = "read_with"
    /\ replies # <<>>
    /\ log[1].op = "stat"
    /\ replies[1].ans.kind = "Ok"

\* The content length that stat reported.
StatLength == replies[1].ans.len

C11_BufferHasRangeSize ==
    (call.name = "read_with" /\ pc = "done" /\ result = Ok)
        => readst.len = readst.size

\* C12: a range of known size is read as given and without a stat; a range
\* of unknown size is resolved by exactly one stat, the first call, which
\* has answered before the read is issued.
C12_StatOnlyForUnknownSize ==
    (call.name = "read_with" /\ log # <<>>)
        => IF call.range.size # None
           THEN /\ Len(log) = 1
                /\ log[1].op = "read"
                /\ log[1].range = call.range
           ELSE /\ log[1].op = "stat"
                /\ \A i \in 2..Len(log) : log[i].op = "read"
                /\ Len(log) >= 2 => /\ replies[1].idx = 1
                                    /\ replies[1].at = 1
                                    /\ replies[1].ans.kind = "Ok"

C12_Witness ==
    /\ call.name = "read_with"
    /\ call.range = [off |-> 1, size |-> None]
    /\ pc = "done"
    /\ result = Ok
    /\ Len(log) = 2
    /\ log[2].range = [off |-> 1, size |-> StatLength - 1]

\* -------------------------------------------------------------- write_with

\* The buffers handed to write_with: 0 to MaxBytes bytes, all different.
Buffers == {[i \in 1..n |-> i] : n \in 0..MaxBytes}

RawWritePaths == {FileF, <<"f", "/", "/">>}

\* Faulty variant of Advance: one write is taken to consume the whole buffer.
AdvanceWhole(bs, n) == <<>>

\* Faulty variant of Advance: the buffer is left as it is.
AdvanceNothing(bs, n) == bs

\* bs.advance(n): the buffer without its first n bytes.
Advance(bs, n) == SubSeq(bs, n + 1, Len(bs))

\* Faulty variant of Fails: an error is not propagated.
FailsNever(a) == FALSE

\* The `?` on a backend answer: an error ends the operation.
Fails(a) == IsErr(a)

\* What the backend answers to inner.write (the writer is created) and to
\* w.close.
WriterAnswers(o, p) == {Ok, Err("Unexpected", o, p)}

\* The number of writes that have taken no byte.
ZeroWrites ==
    Cardinality({i \in DOMAIN replies :
                    replies[i].ans.kind = "Wrote" /\ replies[i].ans.n = 0})

\* What w.write(&bs) answers: the number of bytes taken from the front of
\* bs, any part of it, or an error.
WriteAnswers(p, bs) ==
    {Err("Unexpected", "w.write", p)}
        \cup {[kind |-> "Wrote", n |-> n] : n \in 1..Len(bs)}
        \cup (IF ZeroWrites < MaxZeroWrites THEN {[kind |-> "Wrote", n |-> 0]} ELSE {})

WriteCall(p, bs) == [op |-> "w.write", path |-> p, to |-> NoPath, paths |-> <<>>, bs |-> bs]

\* Faulty variant of NextWriterCall: the loop is entered before the buffer
\* is tested.
NextWriterCallWritesFirst(p, bs) == WriteCall(p, bs)

\* `while bs.remaining() > 0 { w.write(&bs) }` then `w.close()`: the call
\* made when the buffer left is bs.
NextWriterCall(p, bs) ==
    IF Len(bs) > 0 THEN WriteCall(p, bs) ELSE Call1("w.close", p)

\* The future of write_with(path, bs) is run: a directory path is rejected,
\* else the backend writer is asked for.
StartWrite(path, bs) ==
    /\ pc = "idle"
    /\ call' = [name |-> "write_with", input |-> <<>>, path |-> path, to |-> NoPath,
                bs |-> bs]
    /\ IF ModeError("write_with", path) # Ok
       THEN /\ Finish(ModeError("write_with", path))
            /\ UNCHANGED <<hist, wrst>>
       ELSE /\ Issue(Call1("write", path))
            /\ wrst' = [rest |-> bs, taken |-> <<>>]
            /\ pc' = "wr_open"
            /\ result' = result
    /\ UNCHANGED <<opVars, store, sizes, removeVars, others, readst, prev>>

\* write_with(path, bs), awaited with its default arguments.
CallWrite(path, bs) ==
    /\ StartWrite(normalize_path(path), bs)
    /\ UNCHANGED fut

\* let (_, mut w) = inner.write(&path, args).await?; then the first call on
\* the writer.
WR_OpenReturns ==
    /\ pc = "wr_open"
    /\ \E a \in WriterAnswers("write", call.path) :
          IF Fails(a)
          THEN /\ Finish(a)
               /\ Returned(a)
          ELSE /\ ReturnedThenIssue(a, NextWriterCall(call.path, wrst.rest))
               /\ pc' = IF Len(wrst.rest) > 0 THEN "wr_write" ELSE "wr_close"
               /\ result' = result
    /\ UNCHANGED <<opVars, store, sizes, call, removeVars, others, readst, wrst, fut, prev>>

\* let n = w.write(&bs).await?; bs.advance(n); then the next write, or the
\* close when nothing is left.
WR_WriteReturns ==
    /\ pc = "wr_write"
    /\ \E a \in WriteAnswers(call.path, wrst.rest) :
          IF Fails(a)
          THEN /\ Finish(a)
               /\ Returned(a)
               /\ wrst' = wrst
          ELSE LET n == IF a.kind = "Wrote" THEN a.n ELSE 0
                   left == Advance(wrst.rest, n)
               IN /\ ReturnedThenIssue(a, NextWriterCall(call.path, left))
                  /\ wrst' = [rest |-> left,
                              taken |-> wrst.taken \o SubSeq(wrst.rest, 1, n)]
                  /\ pc' = IF Len(left) > 0 THEN "wr_write" ELSE "wr_close"
                  /\ result' = result
    /\ UNCHANGED <<opVars, store, sizes, call, removeVars, others, readst, fut, prev>>

\* w.close().await?; Ok(()): the file now holds the bytes the writer took.
WR_CloseReturns ==
    /\ pc = "wr_close"
    /\ \E a \in WriterAnswers("w.close", call.path) :
          /\ Finish(a)
          /\ Returned(a)
          /\ IF a = Ok
             THEN /\ store' = store \cup {call.path}
                  /\ sizes' = [sizes EXCEPT ![call.path] = Len(wrst.taken)]
             ELSE UNCHANGED <<store, sizes>>
    /\ UNCHANGED <<opVars, call, removeVars, others, readst, wrst, fut, prev>>

InitWrite ==
    /\ limit = MaxLimit
    /\ batchCap \in BOOLEAN
    /\ store \in SUBSET {FileF}
    /\ sizes = [p \in Universe |-> 0]
    /\ InitCommon

NextWrite ==
    \/ \E path \in RawWritePaths, bs \in Buffers : CallWrite(path, bs)
    \/ WR_OpenReturns
    \/ WR_WriteReturns
    \/ WR_CloseReturns
    \/ OtherWrite

SpecWrite == InitWrite /\ [][NextWrite]_vars

\* The log indices of the calls named o.
CallsOf(o) == {i \in DOMAIN log : log[i].op = o}

\* C13: whatever part of the buffer each write takes, the writer is handed
\* the bytes not yet taken, takes every byte of the input once and in order,
\* and close is called once, after the last write.
C13_AllBytesThenOneClose ==
    (call.name = "write_with" /\ log # <<>>)
        => /\ wrst.taken \o wrst.rest = call.bs
           /\ \A i \in CallsOf("w.write") :
                 /\ log[i].bs # <<>>
                 /\ i = Len(log) => log[i].bs = wrst.rest
           /\ Cardinality(CallsOf("w.close")) <= 1
           /\ \A i \in CallsOf("w.close") : i = Len(log) /\ wrst.rest = <<>>
           /\ (pc = "done" /\ result = Ok)
                 => /\ wrst.taken = call.bs
                    /\ Cardinality(CallsOf("w.close")) = 1

C13_Witness ==
    /\ call.name = "write_with"
    /\ call.bs = <<1, 2, 3>>
    /\ pc = "done"
    /\ result = Ok
    /\ Cardinality(CallsOf("w.write")) = 3
    /\ log[Len(log)].op = "w.close"

\* C14: a failing write or close ends write_with with that error; no write
\* and no close is issued after it, and the caller gets the error alone.
C14_WriteFailureAborts ==
    call.name = "write_with"
        => \A k \in DOMAIN replies :
              IsErr(replies[k].ans)
                  => /\ k = Len(replies)
                     /\ replies[k].idx = Len(log)
                     /\ pc = "done"
                     /\ result = replies[k].ans

C14_Witness ==
    /\ call.name = "write_with"
    /\ pc = "done"
    /\ result = Err("Unexpected", "w.write", FileF)
    /\ wrst.taken = <<1>>
    /\ wrst.rest = <<2, 3>>
    /\ Len(log) = 3

\* ----------------------------------------------------- deferred operations

\* The operations that return a builder, and their arguments.
DeferredOps ==
    {"stat_with", "read_with", "reader_with", "write_with", "writer_with",
     "delete_with", "list_with", "lister_with",
     "presign_stat_with", "presign_read_with", "presign_write_with"}

\* The configuration calls one builder takes at most.
MaxChain == 2

\* The configuration calls of each operation's builder, as the option set
\* and the value given.
Settings(op) ==
    (IF op = "stat_with"
     THEN {<<"if_match", e>> : e \in ETags} \cup {<<"version", "v">>}
     ELSE {})
    \cup (IF op \in {"read_with", "reader_with"}
          THEN {<<"range", r>> : r \in Ranges}
                   \cup {<<"if_match", e>> : e \in ETags}
                   \cup {<<"version", "v">>}
          ELSE {})
    \cup (IF op \in {"write_with", "writer_with", "presign_write_with"}
          THEN {<<"content_type", "t">>}
          ELSE {})
    \cup (IF op = "delete_with" THEN {<<"version", "v">>} ELSE {})
    \cup (IF op \in {"list_with", "lister_with"}
          THEN {<<"start_after", "a">>}
          ELSE {})
    \cup (IF op \in {"presign_stat_with", "presign_read_with"}
          THEN {<<"if_match", "A">>}
          ELSE {})

\* args.with_<option>(v): the option is set to v.
With(args, s) == [args EXCEPT ![s[1]] = s[2]]

\* Faulty variant of MapArgs: the option is set and the bytes are lost.
MapArgsDropsPayload(args, s) == [With(args, s) EXCEPT !.bs = <<>>]

\* Faulty variant of MapArgs: an option that was set before keeps its value.
MapArgsKeepsFirst(args, s) ==
    IF args[s[1]] # DefaultArgs[s[1]] THEN args ELSE With(args, s)

\* map_args(f): args: f(self.args), f being the setter of one option (for a
\* write, of the arguments beside the bytes).
MapArgs(args, s) == With(args, s)

\* OperatorFunction::new: the builder holds the backend handle, the path, the
\* arguments and the execution function, which the operation's name stands for.
NewFuture(op, path, args) ==
    [state |-> "idle", inner |-> "accessor", op |-> op, path |-> path, args |-> args,
     calls |-> 0, chain |-> <<>>]

\* Faulty variant of Consumed: the builder can be called again.
ConsumedStaysIdle(f) == [f EXCEPT !.calls = @ + 1]

\* call(self): the function runs and the builder is gone.
Consumed(f) == [f EXCEPT !.state = "called", !.calls = @ + 1]

\* Faulty variant of BackendOp: delete_with asks whether the path exists.
BackendOpDeleteStats(op) == IF op = "create_dir" THEN "create_dir" ELSE "stat"

\* Faulty variant of BackendOp: presigning a read performs the read.
BackendOpPresignReads(op) ==
    CASE op = "stat_with" -> "stat"
      [] op \in {"reader_with", "presign_read", "presign_read_with"} -> "read"
      [] op = "writer_with" -> "write"
      [] op = "delete_with" -> "delete"
      [] op \in {"list_with", "lister_with"} -> "list"
      [] op = "create_dir" -> "create_dir"
      [] OTHER -> "presign"

\* The backend call an operation with a single call makes.
BackendOp(op) ==
    CASE op = "stat_with" -> "stat"
      [] op = "reader_with" -> "read"
      [] op = "writer_with" -> "write"
      [] op = "delete_with" -> "delete"
      [] op \in {"list_with", "lister_with"} -> "list"
      [] op = "create_dir" -> "create_dir"
      [] OTHER -> "presign"

\* Faulty variant of PassedArgs: the backend gets the default arguments.
PassedArgsDefault(args) == DefaultArgs

\* The arguments the execution function hands to the backend call.
PassedArgs(args) == args

\* What the backend answers to a call c that is not a read_with or a
\* write_with step.  A stat with if_match set answers ConditionNotMatch when
\* the path exists with another etag.  A list of a path that does not end
\* with `/` is answered as the backend sees fit: a listing by prefix, or an
\* error.
SimpleAnswers(c) ==
    {Err("Unexpected", c.op, c.path)}
        \cup CASE c.op = "stat" ->
                   IF c.path \in store /\ c.args.if_match \notin {NoString, ETagOf(c.path)}
                   THEN {Err("ConditionNotMatch", "stat", c.path)}
                   ELSE StatAnswers(c.path) \ {Err("Unexpected", "stat", c.path)}
               [] c.op = "read" ->
                   IF c.path \in store THEN {Ok} ELSE {Ok, Err("NotFound", "read", c.path)}
               [] c.op = "list" ->
                   IF EndsWithSlash(c.path) THEN {Ok}
                   ELSE {Ok, Err("NotADirectory", "list", c.path)}
               [] OTHER -> {Ok}

\* The backend after it answered a to call c.
StoreAfterSimple(c, a) ==
    IF a # Ok THEN store
    ELSE IF c.op = "delete" THEN store \ {c.path}
    ELSE IF c.op = "create_dir" THEN store \cup {c.path}
    ELSE store

\* The execution function of an operation with a single backend call runs:
\* the mode of the path is checked where the operation has a mode, then the
\* call is made with the arguments.
StartSimple(op, path, args) ==
    /\ pc = "idle"
    /\ call' = [name |-> op, input |-> <<>>, path |-> path, to |-> NoPath,
                args |-> args]
    /\ IF ModeError(op, path) # Ok
       THEN /\ Finish(ModeError(op, path))
            /\ UNCHANGED hist
       ELSE /\ Issue([op |-> BackendOp(op), path |-> path, to |-> NoPath,
                      paths |-> <<>>, args |-> PassedArgs(args)])
            /\ pc' = "wait"
            /\ result' = result
    /\ UNCHANGED <<opVars, store, sizes, removeVars, others, readst, wrst, prev>>

\* inner.<op>(&path, args).await?: the answer is the result.
SimpleReturns ==
    /\ pc = "wait"
    /\ LET c == log[Len(log)]
       IN \E a \in SimpleAnswers(c) :
             /\ Finish(a)
             /\ Returned(a)
             /\ store' = StoreAfterSimple(c, a)
    /\ UNCHANGED <<opVars, sizes, call, removeVars, others, readst, wrst, fut, prev>>

\* create_dir(path).
CallCreateDir(path) ==
    /\ StartSimple("create_dir", normalize_path(path), DefaultArgs)
    /\ UNCHANGED fut

\* presign_stat, presign_read, presign_write: the path is normalized and the
\* presign of the operation with its default arguments is the only call.
PresignNames == {"presign_stat", "presign_read", "presign_write"}

CallPresign(op, path) ==
    /\ StartSimple(op, normalize_path(path), DefaultArgs)
    /\ UNCHANGED fut

\* Ok(true), Ok(false).
OkBool(b) == [kind |-> "Ok", op |-> "", path |-> NoPath, value |-> b]

\* Faulty variant of IsExistResult: every failure of the stat reads as absent.
IsExistResultAnyErrorIsFalse(a) ==
    IF a.kind = "Ok" THEN OkBool(TRUE) ELSE OkBool(FALSE)

\* match r { Ok(_) => Ok(true), Err(err) => match err.kind() {
\*     ErrorKind::NotFound => Ok(false), _ => Err(err) } }
IsExistResult(a) ==
    IF a.kind = "Ok" THEN OkBool(TRUE)
    ELSE IF a.kind = "NotFound" THEN OkBool(FALSE)
    ELSE a

\* is_exist(path): self.stat(path) is awaited, which normalizes the path and
\* stats it with the default arguments.
CallIsExist(path) ==
    /\ pc = "idle"
    /\ call' = [name |-> "is_exist", input |-> <<>>, path |-> path, to |-> NoPath]
    /\ Issue([op |-> "stat", path |-> normalize_path(path), to |-> NoPath,
              paths |-> <<>>, args |-> DefaultArgs])
    /\ pc' = "ie_stat"
    /\ UNCHANGED <<opVars, store, sizes, result, removeVars, others, readst, wrst,
                   fut, prev>>

\* The stat returns and is_exist maps its result.
IsExistReturns ==
    /\ pc = "ie_stat"
    /\ \E a \in SimpleAnswers(log[Len(log)]) :
          /\ Finish(IsExistResult(a))
          /\ Returned(a)
    /\ UNCHANGED <<opVars, store, sizes, call, removeVars, others, readst, wrst,
                   fut, prev>>

\* The root path check lists.
Root == <<"/">>

\* What creating the lister of the root answers: the backend's list call
\* succeeds or fails, NotFound being one of the failures.
RootListAnswers(c) == SimpleAnswers(c) \cup {Err("NotFound", "list", c.path)}

\* What the first ds.next() answers: an entry, the end of the listing, or an
\* error, NotFound being one of the errors.
FirstEntryAnswers ==
    {[kind |-> "End", op |-> "", path |-> NoPath],
     Err("Unexpected", "list", lister.dir), Err("NotFound", "list", lister.dir)}
        \cup {[kind |-> "Entry", op |-> "", path |-> v] : v \in store}

\* Faulty variant of CheckResult: no error of the first entry is returned.
CheckResultDropsEveryError(a) == Ok

\* match ds.next().await {
\*     Some(Err(e)) if e.kind() != ErrorKind::NotFound => Err(e), _ => Ok(()) }
CheckResult(a) ==
    IF a.kind \notin {"Entry", "End", "NotFound"} THEN a ELSE Ok

\* check(): self.lister("/") is awaited, which normalizes the path and makes
\* the lister with the default arguments.
CallCheck ==
    /\ pc = "idle"
    /\ call' = [name |-> "check", input |-> <<>>, path |-> Root, to |-> NoPath]
    /\ Issue([op |-> "list", path |-> normalize_path(Root), to |-> NoPath,
              paths |-> <<>>, args |-> DefaultArgs])
    /\ pc' = "ck_list"
    /\ UNCHANGED <<opVars, store, sizes, result, removeVars, others, readst, wrst,
                   fut, prev>>

\* let mut ds = self.lister("/").await?
CK_ListerReturns ==
    /\ pc = "ck_list"
    /\ \E a \in RootListAnswers(log[Len(log)]) :
          /\ Returned(a)
          /\ IF a = Ok
             THEN /\ lister' = [dir |-> log[Len(log)].path, seen |-> {}, ended |-> FALSE]
                  /\ pc' = "ck_next"
                  /\ result' = result
             ELSE /\ Finish(a)
                  /\ lister' = lister
    /\ UNCHANGED <<opVars, store, sizes, call, pos, chunk, others, readst, wrst,
                   fut, prev>>

\* ds.next().await and the match on it; what the lister answered is kept
\* with the replies of the list call.
CK_NextReturns ==
    /\ pc = "ck_next"
    /\ \E a \in FirstEntryAnswers :
          /\ Finish(CheckResult(a))
          /\ replies' = Append(replies, Reply(Len(log), a))
    /\ UNCHANGED <<opVars, store, sizes, call, log, inflight, removeVars, others,
                   readst, wrst, fut, prev>>

RawDeferredPaths == {FileF, Dir, <<"f", "/", "/">>}

\* op.<name>_with(path): the builder is made with the normalized path and the
\* default arguments (and the bytes, for write_with).
DF_New(op, path, bs) ==
    /\ pc = "idle"
    /\ fut.state = "none"
    /\ fut' = NewFuture(op, normalize_path(path), [DefaultArgs EXCEPT !.bs = bs])
    /\ UNCHANGED <<opVars, store, sizes, pc, call, result, hist, removeVars, others,
                   readst, wrst, prev>>

\* map_args: a configuration call gives the builder with new arguments; the
\* calls made on the builder are kept in chain.
DF_MapArgs ==
    /\ fut.state = "idle"
    /\ Len(fut.chain) < MaxChain
    /\ \E s \in Settings(fut.op) :
          fut' = [fut EXCEPT !.args = MapArgs(@, s), !.chain = Append(@, s)]
    /\ UNCHANGED <<opVars, store, sizes, pc, call, result, hist, removeVars, others,
                   readst, wrst, prev>>

\* Faulty variant of DF_Drop: dropping the builder runs the operation.
DF_DropRuns ==
    /\ fut.state = "idle"
    /\ fut' = [fut EXCEPT !.state = "dropped"]
    /\ StartSimple(fut.op, fut.path, fut.args)

\* The builder is dropped without being called.
DF_Drop ==
    /\ fut.state = "idle"
    /\ fut' = [fut EXCEPT !.state = "dropped"]
    /\ UNCHANGED <<opVars, store, sizes, pc, call, result, hist, removeVars, others,
                   readst, wrst, prev>>

\* call(self) or .await: (self.f)(self.inner, self.path, self.args).
DF_Call ==
    /\ fut.state = "idle"
    /\ fut' = Consumed(fut)
    /\ CASE fut.op = "read_with" -> StartRead(fut.path, fut.args)
         [] fut.op = "write_with" -> StartWrite(fut.path, fut.args.bs)
         [] OTHER -> StartSimple(fut.op, fut.path, fut.args)

InitDeferred ==
    /\ limit = MaxLimit
    /\ batchCap = FALSE
    /\ store \in SUBSET {FileF, Dir}
    /\ sizes = [p \in Universe |-> IF p = FileF THEN 2 ELSE 0]
    /\ InitCommon

NextDeferred ==
    \/ \E op \in DeferredOps, path \in RawDeferredPaths :
          \E bs \in (IF op = "write_with" THEN {<<>>, <<1, 2>>} ELSE {<<>>}) :
             DF_New(op, path, bs)
    \/ DF_MapArgs
    \/ DF_Drop
    \/ DF_Call
    \/ SimpleReturns
    \/ \E path \in RawDeferredPaths : fut.state = "none" /\ CallCreateDir(path)
    \/ \E op \in PresignNames, path \in RawDeferredPaths :
          fut.state = "none" /\ CallPresign(op, path)
    \/ \E path \in RawDeferredPaths : fut.state = "none" /\ CallIsExist(path)
    \/ IsExistReturns
    \/ fut.state = "none" /\ CallCheck
    \/ CK_ListerReturns
    \/ CK_NextReturns
    \/ RD_StatReturns
    \/ RD_ReadReturns
    \/ WR_OpenReturns
    \/ WR_WriteReturns
    \/ WR_CloseReturns
    \/ OtherWrite

SpecDeferred == InitDeferred /\ [][NextDeferred]_vars

\* C15: while a builder is only made and configured, and after it is
\* dropped uncalled, no backend call has been issued, nothing has run and
\* the backend is as it was.
C15_BuildingIsLazy ==
    fut.state \in {"idle", "dropped"}
        => /\ log = <<>>
           /\ inflight = {}
           /\ pc = "idle"
           /\ result = NoResult
           /\ store = prev.store

C15_Witness ==
    /\ fut.state = "dropped"
    /\ fut.op = "delete_with"
    /\ fut.path = FileF
    /\ fut.args.version = "v"
    /\ FileF \in store

\* C16: the execution function of a builder runs at most once, exactly when
\* the terminal step consumed the builder, and an operation of a builder
\* runs only then.
C16_ExecutedAtMostOnce ==
    /\ fut.calls <= 1
    /\ fut.calls = 1 <=> fut.state = "called"
    /\ call.name \in DeferredOps => fut.state = "called"

C16_Witness ==
    /\ fut.state = "called"
    /\ fut.calls = 1
    /\ fut.op = "stat_with"
    /\ pc = "done"
    /\ result.kind = "Ok"

FileOps == {"read_with", "reader_with", "write_with", "writer_with"}

\* C18: read_with, reader_with, write_with and writer_with on a path ending
\* with `/` fail with IsADirectory, create_dir on a path not ending with `/`
\* fails with NotADirectory, all without a backend call; a path of the
\* expected mode reaches the backend.
C18_ModeCheckedBeforeBackend ==
    /\ (call.name \in FileOps /\ EndsWithSlash(call.path))
          => pc = "done" /\ result.kind = "IsADirectory" /\ log = <<>>
    /\ (call.name = "create_dir" /\ ~EndsWithSlash(call.path))
          => pc = "done" /\ result.kind = "NotADirectory" /\ log = <<>>
    /\ (call.name \in FileOps /\ ~EndsWithSlash(call.path)) => log # <<>>
    /\ (call.name = "create_dir" /\ EndsWithSlash(call.path)) => log # <<>>

C18_Witness ==
    /\ call.name = "writer_with"
    /\ call.path = <<"f", "/">>
    /\ result = Err("IsADirectory", "Operator::writer", <<"f", "/">>)
    /\ log = <<>>

\* C19: stat_with(path).if_match(e) hands the condition to the backend stat
\* and returns its answer as it is: NotFound when the path is absent,
\* ConditionNotMatch when it exists with another etag.
C19_StatConditionPassedThrough ==
    (call.name = "stat_with" /\ log # <<>>)
        => /\ log[1].op = "stat"
           /\ log[1].path = call.path
           /\ log[1].args = call.args
           /\ pc = "done"
                 => /\ Len(log) = 1
                    /\ result = replies[1].ans
                    /\ (others = 0 /\ call.args.if_match # NoString
                            /\ result.kind # "Unexpected")
                          => result.kind =
                                IF call.path \notin store THEN "NotFound"
                                ELSE IF ETagOf(call.path) # call.args.if_match
                                THEN "ConditionNotMatch"
                                ELSE "Ok"

C19_Witness ==
    /\ call.name = "stat_with"
    /\ call.path = FileF
    /\ call.args.if_match = "B"
    /\ FileF \in store
    /\ pc = "done"
    /\ result.kind = "ConditionNotMatch"

\* C20: lister_with (and lister, which awaits it) on a path that does not
\* end with `/` returns an error.
C20_ListerRejectsFilePath ==
    (call.name = "lister_with" /\ ~EndsWithSlash(call.path) /\ pc = "done")
        => IsErr(result)

\* ------------------------------------------------------- repeated deletion

RawDeletePaths == {FileF, DirA, <<"d", "/", "/", "a">>}

\* delete(path): delete_with(path) awaited with its default arguments.
CallDelete(path) ==
    /\ StartSimple("delete_with", normalize_path(path), DefaultArgs)
    /\ UNCHANGED fut

\* The caller, after an operation returned, is about to call the operator
\* again: what ran and the backend it left are remembered.
Again ==
    /\ pc = "done"
    /\ prev.name = ""
    /\ prev' = [name |-> call.name, path |-> call.path, to |-> call.to,
                result |-> result, store |-> store, sizes |-> sizes,
                others |-> others]
    /\ pc' = "idle"
    /\ call' = [name |-> "", input |-> <<>>, path |-> NoPath, to |-> NoPath]
    /\ result' = NoResult
    /\ log' = <<>>
    /\ inflight' = {}
    /\ replies' = <<>>
    /\ pos' = 0
    /\ chunk' = <<>>
    /\ lister' = NoLister
    /\ UNCHANGED <<opVars, store, sizes, others, readst, wrst, fut>>

NextDelete ==
    \/ \E path \in RawDeletePaths : CallDelete(path)
    \/ SimpleReturns
    \/ \E path \in RawDirs : CallRemoveAll(path)
    \/ RA_StatReturns
    \/ RA_FileDeleteReturns
    \/ RA_ListerCreated
    \/ RA_Next
    \/ RA_DeleteReturns
    \/ RA_ChunkNext
    \/ RA_BatchReturns
    \/ RA_RootDeleteReturns
    \/ OtherWrite
    \/ Again

SpecDelete == InitRemove /\ [][NextDelete]_vars

\* The path the running delete or remove_all is about.
TargetPath == normalize_path(call.path)

NoBackendFailure == \A k \in DOMAIN replies : replies[k].ans.kind # "Unexpected"

\* C17: delete issues nothing but the backend delete; delete and remove_all
\* of a path that is absent succeed unless the backend fails, and leave the
\* backend as it was; after a successful delete or remove_all the path is
\* absent, so the same holds of a second application.
C17_DeleteIsIdempotent ==
    /\ call.name = "delete_with" => \A i \in DOMAIN log : log[i].op = "delete"
    /\ (call.name \in {"delete_with", "remove_all"} /\ pc = "done" /\ others = 0
           /\ TargetPath \notin prev.store)
          => /\ store = prev.store
             /\ NoBackendFailure => result = Ok
    /\ (prev.name \in {"delete_with", "remove_all"} /\ prev.result = Ok
           /\ prev.others = 0)
          => normalize_path(prev.path) \notin prev.store

C17_Witness ==
    /\ prev.name = "remove_all"
    /\ prev.path = Dir
    /\ prev.result = Ok
    /\ call.name = "remove_all"
    /\ call.path = Dir
    /\ others = 0
    /\ pc = "done"
    /\ result = Ok

\* --------------------------------------------------------- repeated copies

NextCopyAgain ==
    \/ NextCopy
    \/ Again

SpecCopyAgain == InitCopy /\ [][NextCopyAgain]_vars

\* The running copy passes the checks of the layer: two different file paths.
CopiesFileToOtherFile ==
    /\ call.name = "copy"
    /\ ~EndsWithSlash(normalize_path(call.path))
    /\ ~EndsWithSlash(normalize_path(call.to))
    /\ normalize_path(call.path) # normalize_path(call.to)

\* C21: copy(from, to) of two different file paths issues nothing but one
\* backend copy; with the source present and no backend failure it succeeds
\* whether or not `to` exists, and leaves `to` with the content of `from`;
\* repeating a successful copy leaves the backend as the first one left it.
C21_CopyIsIdempotentAndOverwrites ==
    /\ call.name = "copy"
          => /\ Len(log) <= 1
             /\ \A i \in DOMAIN log : log[i].op = "copy"
    /\ (CopiesFileToOtherFile /\ pc = "done" /\ others = 0 /\ NoBackendFailure
           /\ normalize_path(call.path) \in prev.store)
          => /\ result = Ok
             /\ store = prev.store \cup {normalize_path(call.to)}
             /\ sizes = [prev.sizes EXCEPT ![normalize_path(call.to)] =
                                              prev.sizes[normalize_path(call.path)]]
    /\ (CopiesFileToOtherFile /\ pc = "done" /\ others = 0 /\ result = Ok
           /\ prev.name = "copy" /\ prev.result = Ok
           /\ prev.path = call.path /\ prev.to = call.to)
          => /\ store = prev.store
             /\ sizes = prev.sizes

C21_Witness ==
    /\ prev.name = "copy"
    /\ prev.result = Ok
    /\ prev.path = FileF
    /\ prev.to = FileG
    /\ call.name = "copy"
    /\ call.path = FileF
    /\ call.to = FileG
    /\ pc = "done"
    /\ others = 0
    /\ result = Ok
    /\ sizes[FileG] = 1

\* ------------------------------------------------- claims on presign, probes

PresignOps ==
    PresignNames \cup {"presign_stat_with", "presign_read_with", "presign_write_with"}

\* C22: a presign operation, direct or through its builder, issues one
\* backend call, the presign of the normalized path; it returns the
\* backend's answer and, no one else writing, the backend holds what it held.
C22_PresignOnlyPresigns ==
    call.name \in PresignOps
        => /\ Len(log) = 1
           /\ log[1].op = "presign"
           /\ log[1].path = normalize_path(call.path)
           /\ others = 0 => (store = prev.store /\ sizes = prev.sizes)
           /\ pc = "done" => (Len(replies) = 1 /\ result = replies[1].ans)

C22_Witness ==
    /\ call.name = "presign_read"
    /\ call.path = FileF
    /\ FileF \in store
    /\ pc = "done"
    /\ result = Ok
    /\ log = <<[op |-> "presign", path |-> FileF, to |-> NoPath, paths |-> <<>>,
                args |-> DefaultArgs]>>

\* C23: is_exist issues one stat of the normalized path and nothing else; it
\* returns true when the stat succeeded, false when it failed with NotFound,
\* and the stat's error itself otherwise.
C23_IsExistFollowsStat ==
    call.name = "is_exist"
        => /\ Len(log) = 1
           /\ log[1].op = "stat"
           /\ log[1].path = normalize_path(call.path)
           /\ pc = "done"
                 => /\ Len(replies) = 1
                    /\ replies[1].ans.kind = "Ok" => result = OkBool(TRUE)
                    /\ replies[1].ans.kind = "NotFound" => result = OkBool(FALSE)
                    /\ replies[1].ans.kind \notin {"Ok", "NotFound"}
                          => result = replies[1].ans

C23_Witness ==
    /\ call.name = "is_exist"
    /\ call.path = <<"f", "/", "/">>
    /\ pc = "done"
    /\ replies[1].ans = Err("Unexpected", "stat", <<"f", "/">>)
    /\ result = replies[1].ans

\* The errors check met: those among the answers to its list request.
ErrorsMet ==
    {k \in DOMAIN replies : replies[k].ans.kind \in {"Unexpected", "NotFound"}}

NamesOfOperation(n) ==
    CASE n = "copy" -> {"copy", "Operator::copy"}
      [] n = "rename" -> {"rename", "Operator::rename"}
      [] OTHER -> {n}

\* C25 as stated: an IsADirectory, NotADirectory or IsSameFile error raised
\* before any backend call carries the name of the operation that was
\* invoked and the normalized path (or paths) that offended.
C25_PreconditionErrorsNameTheOperation ==
    (pc = "done" /\ log = <<>>
        /\ result.kind \in {"IsADirectory", "NotADirectory", "IsSameFile"})
        => /\ result.op \in NamesOfOperation(call.name)
           /\ result.path \in {normalize_path(call.path), normalize_path(call.to)}

\* ------------------------------------------------------ claims on removals

Range(f) == {f[i] : i \in DOMAIN f}

\* The delete of the directory itself: a delete of the root path issued after
\* the listing was created.
RootDeletes ==
    {i \in DOMAIN log :
        /\ log[i].op = "delete"
        /\ log[i].path = RootPath
        /\ \E j \in 1..(i - 1) : log[j].op = "list"}

\* C1: in remove_all on an existing directory, every entry the recursive
\* listing produced has been handed to a delete or a batch, and every call
\* issued before the delete of the root directory has returned before that
\* delete is issued; when remove_all returns Ok and no other writer wrote, no
\* entry remains under the directory.
C1_ChildrenDeletedBeforeRoot ==
    call.name = "remove_all" =>
        /\ \A i \in RootDeletes :
              /\ \A j \in 1..(i - 1) :
                    \E k \in DOMAIN replies : replies[k].idx = j /\ replies[k].at < i
              /\ \A v \in lister.seen :
                    \E j \in 1..(i - 1) :
                        \/ log[j].op = "delete" /\ log[j].path = v
                        \/ log[j].op = "batch" /\ v \in Range(log[j].paths)
        /\ (pc = "done" /\ result = Ok /\ others = 0 /\ lister # NoLister)
              => Under(RootPath, store) = {}

C1_Witness ==
    /\ call.name = "remove_all"
    /\ pc = "done"
    /\ result = Ok
    /\ others = 0
    /\ Cardinality(lister.seen) = 2
    /\ RootDeletes # {}

\* C2: remove_all on a path whose stat reports NotFound returns Ok and issues
\* no backend call besides that stat.
C2_NotFoundIsSuccess ==
    (call.name = "remove_all" /\ replies # <<>> /\ replies[1].ans.kind = "NotFound")
        => /\ pc = "done"
           /\ result = Ok
           /\ Len(log) = 1
           /\ log[1].op = "stat"

C2_Witness ==
    /\ call.name = "remove_all"
    /\ replies # <<>>
    /\ replies[1].ans.kind = "NotFound"
    /\ Under(RootPath, store) # {}

\* C3: remove_all on a path whose stat succeeds with a mode other than
\* directory issues exactly one delete, of that path, no list and no batch,
\* and returns what that delete answered.
C3_FileIsDeletedOnce ==
    (call.name = "remove_all" /\ replies # <<>>
        /\ replies[1].ans.kind = "Ok" /\ replies[1].ans.op # "DIR")
        => /\ Len(log) = 2
           /\ log[2] = Call1("delete", RootPath)
           /\ IF pc = "done"
              THEN Len(replies) = 2 /\ replies[2].idx = 2 /\ result = replies[2].ans
              ELSE pc = "ra_file" /\ inflight = {2}

C3_Witness ==
    /\ call.name = "remove_all"
    /\ Len(replies) = 2
    /\ replies[1].ans.kind = "Ok"
    /\ replies[1].ans.op = "FILE"
    /\ pc = "done"
    /\ result.kind = "Unexpected"

\* C4: with batch supported, remove_via over N paths issues only batch
\* requests, each of at most limit items, and exactly ceil(N / limit) of them
\* when it returns Ok.
C4_BatchRequestCount ==
    (call.name = "remove_via" /\ batchCap)
        => /\ \A i \in DOMAIN log :
                 log[i].op = "batch" /\ Len(log[i].paths) <= limit
           /\ (pc = "done" /\ result = Ok)
                 => Len(log) = (Len(call.input) + limit - 1) \div limit

C4_Witness ==
    /\ call.name = "remove_via"
    /\ batchCap
    /\ pc = "done"
    /\ result = Ok
    /\ Len(call.input) = 3
    /\ limit = 2
    /\ Len(log) = 2

\* The paths the batches answered so far have deleted.
DeletedByBatches ==
    UNION {BatchDeleted(log[replies[k].idx].paths, replies[k].ans.failed) :
              k \in {n \in DOMAIN replies : replies[n].ans.kind = "Results"}}

\* C5: in the batch path of remove_via and remove_all, once a batch answer
\* holds failing items the operation has returned the error of the first
\* failing item in result order, that batch is the last backend call issued,
\* and the paths deleted by that batch and by earlier ones stay deleted.
C5_FirstBatchFailureReturned ==
    \A k \in DOMAIN replies :
        (replies[k].ans.kind = "Results" /\ replies[k].ans.failed # {})
            => LET a == replies[k].ans
                   ps == log[replies[k].idx].paths
               IN /\ pc = "done"
                  /\ \E n \in DOMAIN a.order :
                        /\ a.order[n] \in a.failed
                        /\ \A m \in 1..(n - 1) : a.order[m] \notin a.failed
                        /\ result = Err("Unexpected", "batch_item", ps[a.order[n]])
                  /\ replies[k].idx = Len(log)
                  /\ k = Len(replies)
                  /\ others = 0 => DeletedByBatches \cap store = {}

C5_Witness ==
    /\ call.name = "remove_via"
    /\ pc = "done"
    /\ result.op = "batch_item"
    /\ pos < Len(call.input)
    /\ LET a == replies[Len(replies)].ans
       IN /\ a.failed = {1, 2}
          /\ a.order[1] = 2
          /\ result.path # log[Len(log)].paths[1]

\* C6: without batch, the number of deletes remove_via has in flight never
\* exceeds the operator's limit.
C6_InFlightAtMostLimit ==
    (call.name = "remove_via" /\ ~batchCap) => Cardinality(inflight) <= limit

\* Without batch and with a limit of at least one, the number of deletes in
\* flight never exceeds the limit.
InFlightAtMostPositiveLimit ==
    (call.name = "remove_via" /\ ~batchCap /\ limit >= 1)
        => Cardinality(inflight) <= limit

\* Several deletes are in flight at once.
SeveralInFlight ==
    call.name = "remove_via" /\ limit = 2 /\ Cardinality(inflight) = 2

\* C7: without batch, once a delete of remove_via has failed the operation
\* has returned that error: no delete was started after the failure and no
\* answer of another delete was awaited.
C7_FailsFast ==
    (call.name = "remove_via" /\ ~batchCap)
        => \A k \in DOMAIN replies :
              IsErr(replies[k].ans)
                  => /\ pc = "done"
                     /\ result = replies[k].ans
                     /\ k = Len(replies)
                     /\ Len(log) = replies[k].at
                     /\ inflight = {}

C7_Witness ==
    /\ call.name = "remove_via"
    /\ ~batchCap
    /\ pc = "done"
    /\ IsErr(result)
    /\ Len(replies) < Len(log)
    /\ pos < Len(call.input)

\* ------------------------------------------------------- the whole operator

\* An operator with the largest limit over a backend holding a file and any
\* part of a directory.
InitLayer == InitRemove /\ limit = MaxLimit

\* One operation runs at a time: the caller either calls the operator or
\* works on a builder.
NextLayer ==
    \/ fut.state = "none" /\ NextRemove
    \/ fut.state = "none" /\ NextCopy
    \/ fut.state = "none" /\ NextRead
    \/ fut.state = "none" /\ NextWrite
    \/ NextDeferred

SpecLayer == InitLayer /\ [][NextLayer]_vars

\* The paths the caller gave to the running operation, normalized.
CallerPaths ==
    {normalize_path(call.path), normalize_path(call.to)}
        \cup {normalize_path(call.input[k]) : k \in DOMAIN call.input}

\* The path arguments of the backend call c.
PathsOf(c) ==
    (IF c.op = "batch" THEN Range(c.paths) ELSE {c.path})
        \cup (IF c.to # NoPath THEN {c.to} ELSE {})

\* C26: every path argument of every backend call is in normal form, and is
\* the normalized form of a path the caller gave or a path the backend's
\* listing reported.
C26_BackendPathsAreNormalized ==
    \A i \in DOMAIN log :
       \A p \in PathsOf(log[i]) :
          /\ normalize_path(p) = p
          /\ p \in CallerPaths \cup lister.seen

C26_Witness ==
    /\ call.name = "remove_via"
    /\ call.input = <<DirA, <<"d", "/", "/", "b">>>>
    /\ Len(log) = 2
    /\ log[2].op = "delete"
    /\ log[2].path = DirB

\* ------------------------------------------------- claims on batch ordering

\* The paths of the batch requests among the first n calls, in the order
\* they were submitted.
RECURSIVE BatchedUpTo(_)
BatchedUpTo(n) ==
    IF n = 0 THEN <<>>
    ELSE BatchedUpTo(n - 1) \o (IF log[n].op = "batch" THEN log[n].paths ELSE <<>>)

BatchCalls == {i \in DOMAIN log : log[i].op = "batch"}

\* The batch request i has returned with every item deleted.
BatchWentThrough(i) ==
    \E k \in DOMAIN replies :
       /\ replies[k].idx = i
       /\ replies[k].ans.kind = "Results"
       /\ replies[k].ans.failed = {}

\* In the batch path: one batch request at most is in flight, a batch is
\* submitted only after every earlier one returned without a failing item,
\* the batches of remove_via hold the normalized input in its order, and
\* those of remove_all together with the chunk being filled hold the entries
\* the listing produced, each once.
BatchesOneAtATime ==
    (batchCap /\ call.name \in {"remove_via", "remove_all"})
        => /\ Cardinality(inflight \cap BatchCalls) <= 1
           /\ \A i \in BatchCalls : \A j \in BatchCalls :
                 j < i => (j \notin inflight /\ BatchWentThrough(j))
           /\ call.name = "remove_via"
                 => BatchedUpTo(Len(log)) =
                        [k \in 1..pos |-> normalize_path(call.input[k])]
           /\ (call.name = "remove_all" /\ pc \in {"ra_chunk", "ra_batch", "ra_root"})
                 => LET all == BatchedUpTo(Len(log)) \o chunk
                    IN /\ Range(all) = lister.seen
                       /\ Len(all) = Cardinality(lister.seen)

\* A step of remove_all's chunked listing: an entry the listing produces is
\* put at the end of the chunk being filled, and a batch that is submitted
\* holds that chunk as it stands, which then starts empty again.
ChunkFilledInOrder ==
    (call.name = "remove_all" /\ pc = "ra_chunk")
        => LET new == lister'.seen \ lister.seen
               filled == IF new = {} THEN chunk
                         ELSE Append(chunk, CHOOSE v \in new : TRUE)
           IN /\ Cardinality(new) <= 1
              /\ \/ log' = log /\ pc' = "ra_chunk" /\ chunk' = filled
                 \/ log' = log /\ pc' = "done" /\ new = {}
                 \/ /\ log' = Append(log, CallBatch(filled))
                    /\ filled # <<>>
                    /\ chunk' = <<>>
                    /\ pc' = "ra_batch"
                 \/ /\ log' = Append(log, Call1("delete", RootPath))
                    /\ new = {}
                    /\ chunk = <<>>
                    /\ pc' = "ra_root"

\* C27: in the batch path of remove_via and remove_all the chunks are made
\* of consecutive paths in the order they were produced, a chunk is
\* submitted only after the batch of the chunk before it has returned with
\* all its results examined, and one batch request at most is in flight.
C27_BatchesInOrderOneAtATime == []BatchesOneAtATime /\ [][ChunkFilledInOrder]_vars

C27_Witness ==
    /\ call.name = "remove_via"
    /\ batchCap
    /\ limit = 1
    /\ call.input = <<DirA, <<"d", "/", "/", "b">>>>
    /\ Len(log) = 2
    /\ log[1].paths = <<DirA>>
    /\ log[2].paths = <<DirB>>
    /\ inflight = {2}

\* ---------------------------------------- claims on remove_all's item phase

\* The deletes of listed entries: the deletes issued after the listing was
\* created that are not the delete of the directory itself.
ChildDeletes ==
    {i \in DOMAIN log :
        /\ log[i].op = "delete"
        /\ \E j \in 1..(i - 1) : log[j].op = "list"} \ RootDeletes

\* The running remove_all is in its item phase and the listing has entries
\* it did not produce yet.
EntriesLeft ==
    /\ call.name = "remove_all"
    /\ lister # NoLister
    /\ ~lister.ended
    /\ Under(RootPath, store) \ lister.seen # {}

StepFailed(a) ==
    \/ a.kind = "Unexpected"
    \/ a.kind = "Results" /\ a.failed # {}

\* C29: remove_all deletes the directory itself only after every earlier
\* call succeeded; once the stat, the listing, a delete of an entry or a
\* batch (as a whole or in one item) has failed, remove_all has returned that
\* error and no delete of the directory was issued.
C29_RootDeletedOnlyAfterSuccess ==
    call.name = "remove_all"
        => /\ \A i \in RootDeletes : \A k \in DOMAIN replies :
                 replies[k].idx < i => ~StepFailed(replies[k].ans)
           /\ \A k \in DOMAIN replies :
                 (StepFailed(replies[k].ans) /\ replies[k].idx \notin RootDeletes)
                     => /\ pc = "done"
                        /\ RootDeletes = {}
                        /\ k = Len(replies)
                        /\ replies[k].ans.kind = "Unexpected" => result = replies[k].ans
                        /\ replies[k].ans.kind = "Results"
                              => /\ result.kind = "Unexpected"
                                 /\ result.op = "batch_item"
                                 /\ \E n \in replies[k].ans.failed :
                                       result.path = log[replies[k].idx].paths[n]
           /\ (pc = "done" /\ result = Err("Unexpected", "list", RootPath))
                 => RootDeletes = {}

C29_Witness ==
    /\ call.name = "remove_all"
    /\ batchCap
    /\ pc = "done"
    /\ Len(replies) = 3
    /\ replies[3].ans.kind = "Results"
    /\ replies[3].ans.failed # {}
    /\ lister.ended
    /\ RootDeletes = {}

\* ------------------------------------------------ claims on configuration

\* The options in which the arguments b differ from the arguments a.
ChangedOptions(a, b) == {k \in DOMAIN a \ {"bs"} : a[k] # b[k]}

\* A step that leaves a builder a builder: its backend handle, its path and
\* its execution function stay, no option but one changes, and the bytes of
\* a write stay.
ConfigurationStep ==
    (fut.state = "idle" /\ fut'.state = "idle")
        => /\ fut'.inner = fut.inner
           /\ fut'.path = fut.path
           /\ fut'.op = fut.op
           /\ fut'.calls = fut.calls
           /\ DOMAIN fut'.args = DOMAIN fut.args
           /\ Cardinality(ChangedOptions(fut.args, fut'.args)) <= 1
           /\ fut'.args.bs = fut.args.bs

\* C30: a configuration call on a builder changes only the args, and among
\* the args only the option it names; the backend handle, the path, the
\* execution function and the bytes to write are those of the builder it
\* consumed.
C30_ConfigurationChangesOnlyArgs == [][ConfigurationStep]_vars

C30_Witness ==
    /\ fut.state = "idle"
    /\ fut.op = "write_with"
    /\ fut.path = FileF
    /\ fut.args = [DefaultArgs EXCEPT !.content_type = "t", !.bs = <<1, 2>>]

\* --------------------------------------------------------------- operators

MaxOperators == 3

\* .batch_max_operations.unwrap_or(1000)
DefaultLimit == 1000

\* Faulty variant of FromInnerLimit: what the backend reports is not looked at.
FromInnerLimitAlwaysDefault(max) == DefaultLimit

\* The limit from_inner gives the operator, max being the backend's
\* batch_max_operations.
FromInnerLimit(max) == IF max = None THEN DefaultLimit ELSE max

\* Faulty variant of WithLimitResult: the limit of the receiver is set too.
WithLimitInPlace(ops, i, l) ==
    Append([ops EXCEPT ![i].limit = l], MadeOperator(l, "with_limit", i))

\* let mut op = self.clone(); op.limit = limit; op
WithLimitResult(ops, i, l) == Append(ops, MadeOperator(l, "with_limit", i))

\* Operator::from_inner(accessor): another operator over the accessor.
FromInner ==
    /\ pc = "idle"
    /\ Len(operators) < MaxOperators
    /\ operators' = Append(operators, MadeOperator(FromInnerLimit(batchMax), "from_inner", 0))
    /\ UNCHANGED <<limit, batchCap, batchMax, self, tasks, store, sizes, pc, call, result,
                   hist, removeVars, others, readst, wrst, fut, prev>>

\* op.with_limit(l) on the i-th operator.
WithLimit(i, l) ==
    /\ pc = "idle"
    /\ Len(operators) < MaxOperators
    /\ ~operators[i].blocking
    /\ operators' = WithLimitResult(operators, i, l)
    /\ UNCHANGED <<limit, batchCap, batchMax, self, tasks, store, sizes, pc, call, result,
                   hist, removeVars, others, readst, wrst, fut, prev>>

\* op.blocking() on the i-th operator:
\* BlockingOperator::from_inner(self.accessor.clone()).with_limit(self.limit)
Blocking(i) ==
    /\ pc = "idle"
    /\ Len(operators) < MaxOperators
    /\ ~operators[i].blocking
    /\ operators' = Append(operators, MadeOperator(operators[i].limit, "blocking", i))
    /\ UNCHANGED <<limit, batchCap, batchMax, self, tasks, store, sizes, pc, call, result,
                   hist, removeVars, others, readst, wrst, fut, prev>>

\* The caller turns to the i-th operator for the next operation.
Use(i) ==
    /\ pc = "idle"
    /\ i # self
    /\ ~operators[i].blocking
    /\ self' = i
    /\ limit' = operators[i].limit
    /\ UNCHANGED <<batchCap, batchMax, operators, tasks, store, sizes, pc, call, result,
                   hist, removeVars, others, readst, wrst, fut, prev>>

\* The stream remove_via is given here: MaxPaths paths.
LongInput == [k \in 1..MaxPaths |-> IF k % 2 = 1 THEN DirA ELSE <<"d", "/", "/", "b">>]

\* The limits with_limit is called with here.
LimitsAsked == {1, MaxLimit}

\* A first operator made by from_inner over a backend that reports a largest
\* batch or none.
InitOperators ==
    /\ batchMax \in {None} \cup (1..MaxLimit)
    /\ batchCap \in BOOLEAN
    /\ operators = <<MadeOperator(FromInnerLimit(batchMax), "from_inner", 0)>>
    /\ self = 1
    /\ limit = operators[1].limit
    /\ store = {FileF, Dir, DirA, DirB}
    /\ sizes = [p \in Universe |-> 0]
    /\ InitRun

NextOperators ==
    \/ FromInner
    \/ \E i \in DOMAIN operators, l \in LimitsAsked : WithLimit(i, l)
    \/ \E i \in DOMAIN operators : Blocking(i)
    \/ \E i \in DOMAIN operators : Use(i)
    \/ CallRemoveVia(LongInput)
    \/ RV_NextChunk
    \/ RV_BatchReturns
    \/ RV_Dispatch
    \/ RV_DeleteOk
    \/ RV_DeleteErr
    \/ RV_Finish

SpecOperators == InitOperators /\ [][NextOperators]_vars

\* C31: an operator made by from_inner has the backend's batch_max_operations
\* for limit, or 1000 when the backend reports none; the remove_via of such
\* an operator puts that many paths in every batch but the last, which holds
\* no more, and without batch has no more deletes than that in flight.
C31_DefaultLimitIsUsed ==
    /\ \A i \in DOMAIN operators :
          operators[i].by = "from_inner"
              => operators[i].limit = (IF batchMax = None THEN 1000 ELSE batchMax)
    /\ limit = operators[self].limit
    /\ (call.name = "remove_via" /\ operators[self].by = "from_inner")
          => /\ \A i \in BatchCalls :
                   /\ Len(log[i].paths) <= operators[self].limit
                   /\ \A j \in BatchCalls :
                         i < j => Len(log[i].paths) = operators[self].limit
             /\ ~batchCap => Cardinality(inflight) <= operators[self].limit
             /\ (~batchCap /\ pc = "rv_conc" /\ pos < Len(call.input)
                    /\ Cardinality(inflight) < operators[self].limit)
                   => ENABLED RV_Dispatch

C31_Witness ==
    /\ call.name = "remove_via"
    /\ operators[self].by = "from_inner"
    /\ batchMax = 2
    /\ ~batchCap
    /\ Cardinality(inflight) = 2
    /\ pos < Len(call.input)
    /\ pc = "rv_conc"

\* A step makes one operator at most and changes none: an operator made by
\* with_limit or blocking shares the accessor of the one it was made from,
\* blocking keeps its limit, and the limit the operations run with changes
\* only when the caller turns to another operator.
OperatorStep ==
    /\ Len(operators') \in {Len(operators), Len(operators) + 1}
    /\ \A i \in DOMAIN operators : operators'[i] = operators[i]
    /\ Len(operators') = Len(operators) + 1
          => LET n == operators'[Len(operators')]
             IN /\ n.accessor = operators[1].accessor
                /\ n.by \in {"from_inner", "with_limit", "blocking"}
                /\ n.by # "from_inner" => n.from \in DOMAIN operators
                /\ n.by = "blocking"
                      => (n.blocking /\ n.limit = operators[n.from].limit)
                /\ n.by = "with_limit" => n.blocking = operators[n.from].blocking
    /\ limit' = operators'[self'].limit
    /\ limit' # limit => self' # self

\* C37: no step changes the limit of an operator that exists: with_limit
\* gives a new operator over the same backend and leaves its receiver as it
\* was, blocking gives a blocking operator with the limit of its receiver,
\* and the operations leave every limit alone.
C37_LimitChangesOnlyThroughWithLimit == [][OperatorStep]_vars

C37_Witness ==
    /\ Len(operators) = 3
    /\ operators[2].by = "with_limit"
    /\ operators[2].from = 1
    /\ operators[2].limit = 1
    /\ operators[1].limit = 1000
    /\ operators[3].by = "blocking"
    /\ operators[3].from = 2
    /\ operators[3].limit = 1
    /\ self = 2
    /\ pc = "done"

\* ------------------------------------------------ claims on the write loop

\* The backend answers every call made on it.
SpecWriteLive ==
    /\ SpecWrite
    /\ WF_vars(WR_OpenReturns)
    /\ WF_vars(WR_WriteReturns)
    /\ WF_vars(WR_CloseReturns)

\* A write that took at least one byte has returned: fewer bytes are left.
WriteMakesProgress ==
    (pc = "wr_write" /\ Len(replies') > Len(replies)
        /\ replies'[Len(replies')].ans.kind = "Wrote"
        /\ replies'[Len(replies')].ans.n >= 1)
        => /\ Len(wrst'.rest) < Len(wrst.rest)
           /\ Len(wrst'.rest) = Len(wrst.rest) - replies'[Len(replies')].ans.n

\* C32: each write that takes at least one byte leaves fewer bytes to write,
\* and write_with returns unless some write took no byte.
C32_WriteTerminates ==
    /\ [][WriteMakesProgress]_vars
    /\ (call.name = "write_with") ~> (pc = "done" \/ ZeroWrites > 0)

C32_Witness ==
    /\ call.name = "write_with"
    /\ call.bs = <<1, 2, 3>>
    /\ ZeroWrites = 0
    /\ Cardinality(CallsOf("w.write")) = 2
    /\ pc = "done"
    /\ result = Ok

\* The running write_with was given no byte to write to a file path.
WritesNothing ==
    /\ call.name = "write_with"
    /\ call.bs = <<>>
    /\ ~EndsWithSlash(call.path)

\* C33: write_with of an empty buffer to a file path asks for the writer
\* once and never writes; once the writer is there it closes it, once, and
\* returns what the close answered.
C33_EmptyWriteOpensAndCloses ==
    WritesNothing
        => /\ Cardinality(CallsOf("write")) = 1
           /\ log[1].op = "write"
           /\ CallsOf("w.write") = {}
           /\ Cardinality(CallsOf("w.close")) <= 1
           /\ (replies # <<>> /\ replies[1].ans = Ok)
                 => (Len(log) = 2 /\ log[2] = Call1("w.close", call.path))
           /\ (replies # <<>> /\ replies[1].ans # Ok) => Len(log) = 1
           /\ (pc = "done" /\ result = Ok)
                 => (Len(replies) = 2 /\ Cardinality(CallsOf("w.close")) = 1)

C33_Witness ==
    /\ WritesNothing
    /\ call.path = FileF
    /\ pc = "done"
    /\ result = Ok
    /\ Len(log) = 2
    /\ FileF \in store
    /\ sizes[FileF] = 0

\* ------------------------------------------- claims on the chunked listing

\* remove_all, on the batch path, has returned the error of the listing.
ListingFailedInBatchPath ==
    /\ call.name = "remove_all"
    /\ batchCap
    /\ lister # NoLister
    /\ pc = "done"
    /\ result = Err("Unexpected", "list", RootPath)

\* The entries the listing produced that no batch request holds.
NeverSubmitted == lister.seen \ Range(BatchedUpTo(Len(log)))

\* C34: when the listing fails on the batch path, remove_all returns that
\* error; every batch it has submitted is a full chunk, the entries of the
\* chunk that was being filled are in no request and, no one else writing,
\* are still there; the directory itself is not deleted.
C34_UnfinishedChunkIsDropped ==
    ListingFailedInBatchPath
        => /\ \A i \in BatchCalls :
                 Len(log[i].paths) = limit /\ BatchWentThrough(i)
           /\ Cardinality(NeverSubmitted) = Cardinality(lister.seen) % limit
           /\ \A i \in DOMAIN log : log[i].op \in {"stat", "list", "batch"}
           /\ others = 0 => NeverSubmitted \subseteq store
           /\ chunk = <<>>

C34_Witness ==
    /\ ListingFailedInBatchPath
    /\ limit = 2
    /\ Cardinality(lister.seen) = 1
    /\ NeverSubmitted = lister.seen
    /\ others = 0
    /\ BatchCalls = {}

\* ---------------------------------------------- claims on empty removals

\* With a limit of at least one: no batch request is empty, remove_via of an
\* empty stream returns Ok without a backend call, and remove_all of an
\* empty directory deletes it without a batch request.
NoEmptyBatchForPositiveLimit ==
    limit >= 1
        => /\ \A i \in BatchCalls : Len(log[i].paths) >= 1
           /\ (call.name = "remove_via" /\ call.input = <<>>)
                 => (log = <<>> /\ (pc = "done" => result = Ok))
           /\ (call.name = "remove_all" /\ lister.ended /\ lister.seen = {})
                 => (BatchCalls = {} /\ RootDeletes # {})

\* C36 as stated: no batch request is empty; remove_via of an empty stream
\* issues no backend call and returns Ok; remove_all of an empty directory
\* issues no batch request before it deletes the directory.
C36_NoEmptyBatch ==
    /\ \A i \in BatchCalls : Len(log[i].paths) >= 1
    /\ (call.name = "remove_via" /\ call.input = <<>>)
          => (log = <<>> /\ (pc = "done" => result = Ok))
    /\ (call.name = "remove_all" /\ lister.ended /\ lister.seen = {})
          => (BatchCalls = {} /\ RootDeletes # {})

\* ------------------------------------------- claims on the stat of read_with

\* The stat of the running read_with that has failed, if any.
FailedStats ==
    {k \in 1..Len(replies) : /\ log[replies[k].idx].op = "stat"
                             /\ replies[k].ans.kind # "Ok"}

\* C35: the stat that read_with issues to resolve a range of unknown size
\* carries the default arguments, whatever if_match or version the read was
\* configured with; these reach the backend's read only.  When the stat
\* fails read_with returns the stat's error and no read is issued.
C35_StatOfReadIsUnconditional ==
    call.name = "read_with"
        => /\ \A i \in 1..Len(log) :
                 /\ log[i].op = "stat" => log[i].args = DefaultArgs
                 /\ log[i].op = "read"
                       => /\ log[i].args.if_match = call.args.if_match
                          /\ log[i].args.version = call.args.version
           /\ \A k \in FailedStats :
                 /\ pc = "done"
                 /\ result = replies[k].ans
                 /\ result.kind # "ConditionNotMatch"
                 /\ \A i \in 1..Len(log) : log[i].op # "read"

C35_Witness ==
    /\ call.name = "read_with"
    /\ call.args.if_match = "B"
    /\ call.args.version = "v"
    /\ call.range = FullRange
    /\ Len(log) = 2
    /\ log[1].op = "stat"
    /\ log[1].args = DefaultArgs
    /\ replies[1].ans.kind = "Ok"
    /\ log[2].args.if_match = "B"
    /\ pc = "done"
    /\ result = Err("ConditionNotMatch", "read", FileF)

\* A read_with whose stat failed.
C35_StatFailed ==
    /\ call.name = "read_with"
    /\ call.args.if_match = "B"
    /\ FailedStats # {}
    /\ pc = "done"
    /\ result = Err("NotFound", "stat", FileF)

\* --------------------------------------- claims on the configuration chain

\* The options of a builder's arguments.
Options == DOMAIN DefaultArgs \ {"bs"}

\* The positions of the chain ch at which option o was set.
SetAt(ch, o) == {i \in 1..Len(ch) : ch[i][1] = o}

\* The value option o has after the calls of the chain ch: the value of the
\* last call that set it, the default when no call did.
LastSet(ch, o) ==
    IF SetAt(ch, o) = {} THEN DefaultArgs[o]
    ELSE ch[CHOOSE i \in SetAt(ch, o) : \A j \in SetAt(ch, o) : j <= i][2]

\* C38: the arguments a builder holds, and the arguments its execution
\* function receives when it is called, are the default arguments with the
\* configuration calls applied in the order of the chain: an option set
\* twice has the value set last, an option never set has its default.
C38_ArgsAreDefaultsWithChainApplied ==
    /\ fut.state \in {"idle", "called"}
          => \A o \in Options : fut.args[o] = LastSet(fut.chain, o)
    /\ (fut.state = "called" /\ call.name # "write_with")
          => /\ call.name = fut.op
             /\ \A o \in Options : call.args[o] = LastSet(fut.chain, o)
             /\ (call.name # "read_with" /\ log # <<>>)
                   => \A o \in Options : log[1].args[o] = LastSet(fut.chain, o)

C38_Witness ==
    /\ fut.state = "called"
    /\ fut.op = "stat_with"
    /\ fut.chain = <<(<<"if_match", "A">>), (<<"if_match", "B">>)>>
    /\ log # <<>>
    /\ log[1].args.if_match = "B"
    /\ log[1].args.version = NoString
    /\ pc = "done"
    /\ result = Err("ConditionNotMatch", "stat", FileF)

\* -------------------------------------- two remove_all calls side by side

\* What the calls running side by side leave alone.
taskVars ==
    <<limit, batchCap, batchMax, operators, self, sizes, pc, result, log, inflight,
      replies, pos, chunk, lister, others, readst, wrst, fut, prev>>

\* A remove_all call that has not started: its position, its result, the
\* backend call it awaits, its lister (the entries under the directory when
\* the listing was made, the entries produced, whether it has ended) and the
\* entries try_chunks holds.
NewTask ==
    [pc |-> "idle", result |-> NoResult, req |-> Call1("", NoPath),
     snap |-> {}, seen |-> {}, ended |-> FALSE, chunk |-> <<>>]

\* The path both calls work on, as stat, delete and lister_with normalize it.
TaskPath == normalize_path(call.path)

\* A backend that fails no call: a stat answers the metadata or NotFound.
StatAnswersNoFailure(p) == StatAnswers(p) \ {Err("Unexpected", "stat", p)}

\* A backend that fails no call: deleting a path, absent or not, is Ok.
DeleteAnswersNoFailure(p) == {Ok}

\* A backend that fails no call: every item of a batch of deletes is Ok.
BatchAnswersNoFailure(ps) ==
    {a \in BatchAnswers(ps) : a.kind = "Results" /\ a.failed = {}}

\* What the lister of call t answers while other calls delete entries: an
\* entry that was there when the listing was made and was not produced yet,
\* whether it still exists or not, or the end once every entry that exists
\* was produced.
TaskListerAnswers(t) ==
    IF tasks[t].ended \/ Under(TaskPath, store) \subseteq tasks[t].seen
    THEN {[kind |-> "End", op |-> "", path |-> NoPath]}
             \cup (IF tasks[t].ended THEN {}
                   ELSE {[kind |-> "Entry", op |-> "", path |-> v] :
                             v \in tasks[t].snap \ tasks[t].seen})
    ELSE {[kind |-> "Entry", op |-> "", path |-> v] :
              v \in tasks[t].snap \ tasks[t].seen}

\* Call t returns r.
TaskFinish(t, r) ==
    tasks' = [tasks EXCEPT ![t].pc = "done", ![t].result = r]

RawTaskPaths == {Dir, <<"d", "/", "/">>, FileF}

\* remove_all(path) is called; both calls are given the same path.
T_Call(t, path) ==
    /\ tasks[t].pc = "idle"
    /\ call.name = "" \/ call.path = path
    /\ call' = [name |-> "remove_all", input |-> <<>>, path |-> path, to |-> NoPath]
    /\ tasks' = [tasks EXCEPT ![t].pc = "ra_stat",
                              ![t].req = Call1("stat", normalize_path(path))]
    /\ UNCHANGED <<store, taskVars>>

\* The stat returns and remove_all branches on it.
T_StatReturns(t) ==
    /\ tasks[t].pc = "ra_stat"
    /\ \E a \in StatAnswersNoFailure(TaskPath) :
          CASE StatBranch(a) = "return_ok" -> TaskFinish(t, Ok)
            [] StatBranch(a) = "return_err" -> TaskFinish(t, a)
            [] StatBranch(a) = "delete" ->
                  tasks' = [tasks EXCEPT ![t].pc = "ra_file",
                                         ![t].req = Call1("delete", TaskPath)]
            [] StatBranch(a) = "list" ->
                  tasks' = [tasks EXCEPT ![t].pc = "ra_list",
                                         ![t].req = Call1("list", TaskPath)]
    /\ UNCHANGED <<store, call, taskVars>>

\* return self.delete(path).await
T_FileDeleteReturns(t) ==
    /\ tasks[t].pc = "ra_file"
    /\ \E a \in DeleteAnswersNoFailure(TaskPath) :
          /\ TaskFinish(t, a)
          /\ store' = StoreAfterDelete(TaskPath, a)
    /\ UNCHANGED <<call, taskVars>>

\* lister_with(path).recursive(true).await?, then the capability branch:
\* try_chunks(self.limit()) panics on a limit of zero.
T_ListerCreated(t) ==
    /\ tasks[t].pc = "ra_list"
    /\ tasks' = [tasks EXCEPT
                   ![t].snap = Under(TaskPath, store),
                   ![t].pc = IF batchCap
                             THEN IF limit = 0 THEN "done" ELSE "ra_chunk"
                             ELSE "ra_next",
                   ![t].result = IF batchCap /\ limit = 0 THEN Panic ELSE @]
    /\ UNCHANGED <<store, call, taskVars>>

\* Without batch, try_for_each: the next entry is deleted before the lister
\* is asked again; at the end of the listing the directory itself is deleted.
T_Next(t) ==
    /\ tasks[t].pc = "ra_next"
    /\ \E a \in TaskListerAnswers(t) :
          IF a.kind = "Entry"
          THEN tasks' = [tasks EXCEPT ![t].seen = @ \cup {a.path},
                                      ![t].pc = "ra_del",
                                      ![t].req = Call1("delete", normalize_path(a.path))]
          ELSE tasks' = [tasks EXCEPT ![t].ended = TRUE,
                                      ![t].pc = "ra_root",
                                      ![t].req = Call1("delete", TaskPath)]
    /\ UNCHANGED <<store, call, taskVars>>

\* Without batch: the delete of one entry returns.
T_DeleteReturns(t) ==
    /\ tasks[t].pc = "ra_del"
    /\ \E a \in DeleteAnswersNoFailure(tasks[t].req.path) :
          /\ store' = StoreAfterDelete(tasks[t].req.path, a)
          /\ IF GoesOnAfter(a)
             THEN tasks' = [tasks EXCEPT ![t].pc = "ra_next"]
             ELSE TaskFinish(t, a)
    /\ UNCHANGED <<call, taskVars>>

\* With batch, obs.next() on the chunked lister: entries are collected until
\* the chunk is full or the listing ends.
T_ChunkNext(t) ==
    /\ tasks[t].pc = "ra_chunk"
    /\ \E a \in TaskListerAnswers(t) :
          IF a.kind = "Entry"
          THEN IF TryChunkFull(limit, Len(tasks[t].chunk) + 1)
               THEN tasks' = [tasks EXCEPT
                                ![t].seen = @ \cup {a.path},
                                ![t].req = CallBatch(Append(tasks[t].chunk, a.path)),
                                ![t].chunk = <<>>,
                                ![t].pc = "ra_batch"]
               ELSE tasks' = [tasks EXCEPT ![t].seen = @ \cup {a.path},
                                           ![t].chunk = Append(@, a.path)]
          ELSE IF tasks[t].chunk # <<>>
               THEN tasks' = [tasks EXCEPT ![t].ended = TRUE,
                                           ![t].req = CallBatch(tasks[t].chunk),
                                           ![t].chunk = <<>>,
                                           ![t].pc = "ra_batch"]
               ELSE tasks' = [tasks EXCEPT ![t].ended = TRUE,
                                           ![t].req = Call1("delete", TaskPath),
                                           ![t].pc = "ra_root"]
    /\ UNCHANGED <<store, call, taskVars>>

\* With batch: the batch request returns.
T_BatchReturns(t) ==
    /\ tasks[t].pc = "ra_batch"
    /\ LET ps == tasks[t].req.paths
       IN \E a \in BatchAnswersNoFailure(ps) :
             /\ store' = StoreAfterBatch(ps, a)
             /\ IF BatchOutcome(ps, a) = Ok
                THEN tasks' = [tasks EXCEPT ![t].pc = "ra_chunk"]
                ELSE TaskFinish(t, BatchOutcome(ps, a))
    /\ UNCHANGED <<call, taskVars>>

\* self.delete(path).await?; Ok(())
T_RootDeleteReturns(t) ==
    /\ tasks[t].pc = "ra_root"
    /\ \E a \in DeleteAnswersNoFailure(TaskPath) :
          /\ TaskFinish(t, a)
          /\ store' = StoreAfterDelete(TaskPath, a)
    /\ UNCHANGED <<call, taskVars>>

\* Two calls through one operator over a backend in which an entry under the
\* directory exists only when the directory does.
InitTasks ==
    /\ limit \in 0..MaxLimit
    /\ batchCap \in BOOLEAN
    /\ batchMax = None
    /\ operators = <<MadeOperator(limit, "with_limit", 0)>>
    /\ self = 1
    /\ store \in {s \in SUBSET {Dir, DirA, DirB, FileF} :
                     Under(Dir, s) # {} => Dir \in s}
    /\ sizes = [p \in Universe |-> 0]
    /\ pc = "idle"
    /\ call = [name |-> "", input |-> <<>>, path |-> NoPath, to |-> NoPath]
    /\ result = NoResult
    /\ log = <<>>
    /\ inflight = {}
    /\ replies = <<>>
    /\ pos = 0
    /\ chunk = <<>>
    /\ lister = NoLister
    /\ others = 0
    /\ readst = NoRead
    /\ wrst = NoWrite
    /\ fut = NoFuture
    /\ prev = NoPrev
    /\ tasks = <<NewTask, NewTask>>

NextTasks ==
    \/ \E t \in 1..2, path \in RawTaskPaths : T_Call(t, path)
    \/ \E t \in 1..2 : T_StatReturns(t)
    \/ \E t \in 1..2 : T_FileDeleteReturns(t)
    \/ \E t \in 1..2 : T_ListerCreated(t)
    \/ \E t \in 1..2 : T_Next(t)
    \/ \E t \in 1..2 : T_DeleteReturns(t)
    \/ \E t \in 1..2 : T_ChunkNext(t)
    \/ \E t \in 1..2 : T_BatchReturns(t)
    \/ \E t \in 1..2 : T_RootDeleteReturns(t)

SpecTasks == InitTasks /\ [][NextTasks]_vars

\* Both calls have returned.
BothReturned == \A t \in 1..2 : tasks[t].pc = "done"

\* Both calls returned Ok and nothing is left of the path or under it.
BothSucceeded ==
    /\ \A t \in 1..2 : tasks[t].result = Ok
    /\ Under(TaskPath, store) = {}
    /\ TaskPath \notin store

\* C39: two remove_all calls on the same directory that run side by side
\* over a backend that fails no call both return Ok, whatever the order of
\* their backend calls, and leave no entry under the directory.
C39_ConcurrentRemoveAllSucceed ==
    (tasks # <<>> /\ BothReturned) => BothSucceeded

\* The same for an operator whose limit is at least 1 when the backend has
\* batch.
ConcurrentRemoveAllSucceedForPositiveLimit ==
    (tasks # <<>> /\ BothReturned /\ (batchCap => limit >= 1)) => BothSucceeded

\* Both calls listed the directory while the two entries were there, and one
\* of them deleted entries the other had deleted before.
BothListedAndSucceeded ==
    /\ tasks # <<>>
    /\ BothReturned
    /\ BothSucceeded
    /\ TaskPath = Dir
    /\ \A t \in 1..2 : tasks[t].seen = {DirA, DirB}

====
